---- MODULE Spec2Model ----
(***************************************************************************)
(* Model of the embedded GTFS-RT protobuf decoder of                       *)
(* src/ArcGISPro/GTFS-Protobuf-decode-embedded.py: the byte cursor         *)
(* _ProtoReader, the message assemblers _parse_xxx, parse_with_bindings    *)
(* and fetch_and_parse_gtfs_data; and of the fetch, validation,            *)
(* classification and update cycle (main) of that script, of               *)
(* src/Adelaide-Metro-Notebook.py and of                                   *)
(* src/Adelaide-Metro-Notebook-ChatGPT-Improvements.py.                    *)
(*                                                                         *)
(* Bytes are naturals in 0..255 and a buffer is a sequence of bytes.  The  *)
(* cursor offset i is 0-based as in the source, so the byte at offset i is *)
(* data[i + 1].                                                            *)
(*                                                                         *)
(* A Python int produced by read_varint can need up to 70 bits, which is   *)
(* more than a TLC integer holds.  Such an int is kept exactly, as the     *)
(* little-endian sequence of its 7-bit groups with the high zero groups    *)
(* removed (the int 0 is the empty sequence).                              *)
(***************************************************************************)
EXTENDS Integers, Sequences, FiniteSets, TLC

VARIABLES
    rd,      \* the _ProtoReader under test: [data, i, n]
    last,    \* the last primitive call made on rd and its outcome
    kind,    \* which assembler the input of this run is for
    fields,  \* the wire fields the input buffer was serialised from
    buf,     \* the input buffer handed to the assembler
    pc,      \* "ready" before the call, "done" after it; the position in
             \* fetch_and_parse_gtfs_data and main
    res,     \* outcome of the call
    stack    \* the assemblers waiting for a nested assembler: [kind, rd]

VARIABLES
    script,       \* the script that runs: "improvements", "notebook", "embedded"
    max_retries,  \* argument of fetch_and_parse_gtfs_data (Improvements)
    base_delay,   \* argument of fetch_and_parse_gtfs_data, in tenths of a second
    attempt,      \* the failure counter of the retry loop
    log,          \* what the run did to the world so far, in order
    fetched,      \* the list fetch_and_parse_gtfs_data returned ("vehicles")
    valid,        \* the list validate_and_filter_positions returned
    route,        \* the argument of classify_vehicle_type
    vtype         \* the value classify_vehicle_type returned

rdVars == <<rd, last>>
asmVars == <<kind, fields, buf, pc, res, stack>>
runVars == <<script, max_retries, base_delay, attempt, log, fetched, valid, route, vtype>>

vars == <<rd, last, kind, fields, buf, pc, res, stack, script, max_retries, base_delay, attempt,
          log, fetched, valid, route, vtype>>

(***************************************************************************)
(* Bounds of the model.                                                    *)
(***************************************************************************)
MaxBufLen == 3      \* longest exhaustively enumerated reader buffer
MaxReadLen == 3     \* largest length passed directly to read_bytes
MaxTail == 1        \* bytes that follow an encoded varint in a buffer
MaxFields == 2      \* fields of a generated message below FeedMessage
MaxEntities == 2    \* fields of a generated FeedMessage after its header
MaxVehicles == 2    \* records of a list handed to the validator or fetched
MaxRetries == 4     \* largest max_retries passed to fetch_and_parse_gtfs_data
NegRetries == 2     \* the smallest max_retries passed is -NegRetries
MaxRouteLen == 2    \* longest exhaustively enumerated route_id

(***************************************************************************)
(* Python ints as sequences of 7-bit groups.                               *)
(***************************************************************************)
GroupBase == 128

\* Number of significant groups of g (0 for the int 0).
Sig(g) ==
    IF \E k \in 1..Len(g) : g[k] # 0
    THEN CHOOSE k \in 1..Len(g) : g[k] # 0 /\ \A m \in (k + 1)..Len(g) : g[m] = 0
    ELSE 0

\* The int whose groups are g, in its unique representation.
Norm(g) == SubSeq(g, 1, Sig(g))

\* Ints below 2^28 have a TLC integer value.
IsSmall(v) == Len(v) <= 4

RECURSIVE Num(_)
Num(v) == IF v = <<>> THEN 0 ELSE v[1] + GroupBase * Num(Tail(v))

\* Every buffer of the model is far shorter than 2^28 bytes, so in a
\* comparison with an offset or a field number an int of 2^28 or more
\* behaves as 2^28 does.
Saturated == GroupBase * GroupBase * GroupBase * GroupBase
AsInt(v) == IF IsSmall(v) THEN Num(v) ELSE Saturated

\* v < 2^64: at most nine full groups and one bit of the tenth.
Fits64(v) == Len(v) <= 9 \/ (Len(v) = 10 /\ v[10] <= 1)

(***************************************************************************)
(* _ProtoReader                                                            *)
(***************************************************************************)
NoVal == <<>>

ProtoReader(d) == [data |-> d, i |-> 0, n |-> Len(d)]

eof(r) == r.i >= r.n

Ok(r, v) == [ok |-> TRUE, r |-> r, val |-> v, err |-> ""]
Raise(r, e) == [ok |-> FALSE, r |-> r, val |-> NoVal, err |-> e]

\* _require moving the cursor before it checks the bound
RequireEager(r, count) ==
    IF r.i + count > r.n
    THEN Raise([r EXCEPT !.i = r.i + count], "Truncated protobuf message")
    ELSE Ok([r EXCEPT !.i = r.i + count], <<r.i>>)

\* _require: val is <<start>>
Require(r, count) ==
    IF r.i + count > r.n
    THEN Raise(r, "Truncated protobuf message")
    ELSE Ok([r EXCEPT !.i = r.i + count], <<r.i>>)

\* the shift guard of read_varint, one group too early
VarintTooLongEarly(shift) == shift >= 57

\* read_varint: the guard "if shift >= 64" evaluated after "shift += 7"
VarintTooLong(shift) == shift >= 64

\* The loop of read_varint.  result holds the groups or-ed in so far; the
\* group of the byte read at shift 7k is group k+1, so or-ing it in at
\* that shift appends it.
RECURSIVE VarintLoop(_, _, _)
VarintLoop(r, result, shift) ==
    IF r.i >= r.n
    THEN Raise(r, "Truncated varint")
    ELSE LET b == r.data[r.i + 1]
             r1 == [r EXCEPT !.i = r.i + 1]
             result1 == Append(result, b % 128)
         IN  IF b < 128
             THEN Ok(r1, Norm(result1))
             ELSE IF VarintTooLong(shift + 7)
                  THEN Raise(r1, "Varint too long")
                  ELSE VarintLoop(r1, result1, shift + 7)

read_varint(r) == VarintLoop(r, <<>>, 0)

\* data[start:start + length] once _require has returned start
Slice(d, q, length) ==
    IF ~q.ok THEN q
    ELSE Ok(q.r, SubSeq(d, q.val[1] + 1, q.val[1] + length))

read_bytes(r, length) == Slice(r.data, Require(r, length), length)

\* read_float asking for the eight bytes of a double
ReadFloatWide(r) == Slice(r.data, Require(r, 8), 8)

\* struct.unpack("<f") of four bytes: the float is identified by its bits
read_float(r) == Slice(r.data, Require(r, 4), 4)

\* struct.unpack("<d") of eight bytes
read_double(r) == Slice(r.data, Require(r, 8), 8)

\* r.read_bytes(length) once read_varint has returned length
BytesOfLength(l) == IF ~l.ok THEN l ELSE read_bytes(l.r, AsInt(l.val))

\* length = r.read_varint(); r.read_bytes(length)
ReadLengthDelimited(r) == BytesOfLength(read_varint(r))

\* skip_field that treats group markers as empty fields
SkipFieldLenient(r, wire_type) ==
    IF wire_type = 0 THEN read_varint(r)
    ELSE IF wire_type = 1 THEN read_bytes(r, 8)
    ELSE IF wire_type = 2 THEN ReadLengthDelimited(r)
    ELSE IF wire_type = 5 THEN read_bytes(r, 4)
    ELSE Ok(r, NoVal)

\* skip_field that sizes a 32-bit field as 8 bytes
SkipFieldWide(r, wire_type) ==
    IF wire_type = 0 THEN read_varint(r)
    ELSE IF wire_type = 1 THEN read_bytes(r, 8)
    ELSE IF wire_type = 2 THEN ReadLengthDelimited(r)
    ELSE IF wire_type = 5 THEN read_bytes(r, 8)
    ELSE Raise(r, "Unsupported protobuf wire type")

skip_field(r, wire_type) ==
    IF wire_type = 0 THEN read_varint(r)
    ELSE IF wire_type = 1 THEN read_bytes(r, 8)
    ELSE IF wire_type = 2 THEN ReadLengthDelimited(r)
    ELSE IF wire_type = 5 THEN read_bytes(r, 4)
    ELSE Raise(r, "Unsupported protobuf wire type")

(***************************************************************************)
(* Values of the output dicts.  None, str, int and float are kept apart    *)
(* by a type tag; v holds code points, 7-bit groups or the bytes of the    *)
(* float.                                                                  *)
(***************************************************************************)
None == [t |-> "None", v |-> <<>>]
Str(s) == [t |-> "str", v |-> s]
PyInt(g) == [t |-> "int", v |-> g]
Float(b) == [t |-> "float", v |-> b]
DateTime(g) == [t |-> "datetime", v |-> g]

\* bytes.decode("utf-8", "ignore"): one- and two-byte sequences decode to
\* their code point, any other byte is dropped.  (Exact for buffers without
\* the lead bytes 0xE0..0xF4 of longer sequences, which no input here has.)
RECURSIVE Utf8Ignore(_)
Utf8Ignore(b) ==
    IF b = <<>> THEN <<>>
    ELSE IF b[1] < 128 THEN <<b[1]>> \o Utf8Ignore(Tail(b))
    ELSE IF b[1] \in 194..223 /\ Len(b) >= 2 /\ b[2] \in 128..191
         THEN <<(b[1] - 192) * 64 + (b[2] - 128)>> \o Utf8Ignore(Tail(Tail(b)))
    ELSE Utf8Ignore(Tail(b))

\* tag >> 3 and tag & 0x07
FieldOf(tag) == AsInt(tag) \div 8
WireOf(tag) == IF tag = <<>> THEN 0 ELSE tag[1] % 8

\* Outcome of an assembler: i is the offset of its reader when it returned
\* or when the exception left it.
Returned(r, out) == [ok |-> TRUE, i |-> r.i, out |-> out, err |-> ""]
Raised(r, e) == [ok |-> FALSE, i |-> r.i, out |-> <<>>, err |-> e]

\* The ValueError of a reader call leaves the assembler.
Propagate(q) == Raised(q.r, q.err)

\* Each loop below is written as the source's loop body is, cut into the
\* steps that follow a reader call: XxxTag takes the outcome t of the tag
\* read, XxxField dispatches on (field, wt), and one operator per branch
\* takes the outcome of that branch's read.

(***************************************************************************)
(* _parse_trip_descriptor                                                  *)
(***************************************************************************)
TripNone ==
    [trip_id |-> None, route_id |-> None, direction_id |-> None,
     start_time |-> None, start_date |-> None]

\* a store that keeps the value already there
TripStoreFirst(out, field, s) ==
    CASE field = 1 -> IF out.trip_id = None THEN [out EXCEPT !.trip_id = Str(s)] ELSE out
      [] field = 2 -> IF out.start_time = None THEN [out EXCEPT !.start_time = Str(s)] ELSE out
      [] field = 3 -> IF out.start_date = None THEN [out EXCEPT !.start_date = Str(s)] ELSE out
      [] field = 5 -> IF out.route_id = None THEN [out EXCEPT !.route_id = Str(s)] ELSE out

TripStore(out, field, s) ==
    CASE field = 1 -> [out EXCEPT !.trip_id = Str(s)]
      [] field = 2 -> [out EXCEPT !.start_time = Str(s)]
      [] field = 3 -> [out EXCEPT !.start_date = Str(s)]
      [] field = 5 -> [out EXCEPT !.route_id = Str(s)]

RECURSIVE TripLoop(_, _)

TripString(b, field, out) ==
    IF ~b.ok THEN Propagate(b)
    ELSE TripLoop(b.r, TripStore(out, field, Utf8Ignore(b.val)))

TripDirection(d, out) ==
    IF ~d.ok THEN Propagate(d)
    ELSE TripLoop(d.r, [out EXCEPT !.direction_id = PyInt(d.val)])

TripSkipped(k, out) == IF ~k.ok THEN Propagate(k) ELSE TripLoop(k.r, out)

\* a dispatch that decodes a known field number whatever its wire type
TripFieldAnyWire(r, field, wt, out) ==
    IF field \in {1, 2, 3, 5} THEN TripString(ReadLengthDelimited(r), field, out)
    ELSE IF field = 6 THEN TripDirection(read_varint(r), out)
    ELSE TripSkipped(skip_field(r, wt), out)

TripField(r, field, wt, out) ==
    IF wt = 2 /\ field \in {1, 2, 3, 5} THEN TripString(ReadLengthDelimited(r), field, out)
    ELSE IF wt = 0 /\ field = 6 THEN TripDirection(read_varint(r), out)
    ELSE TripSkipped(skip_field(r, wt), out)

TripTag(t, out) ==
    IF ~t.ok THEN Propagate(t)
    ELSE TripField(t.r, FieldOf(t.val), WireOf(t.val), out)

TripLoop(r, out) == IF eof(r) THEN Returned(r, out) ELSE TripTag(read_varint(r), out)

parse_trip_descriptor(d) == TripLoop(ProtoReader(d), TripNone)

(***************************************************************************)
(* _parse_vehicle_descriptor                                               *)
(***************************************************************************)
VehicleNone == [vehicle_id |-> None, vehicle_label |-> None, license_plate |-> None]

VehicleStore(out, field, s) ==
    CASE field = 1 -> [out EXCEPT !.vehicle_id = Str(s)]
      [] field = 2 -> [out EXCEPT !.vehicle_label = Str(s)]
      [] field = 3 -> [out EXCEPT !.license_plate = Str(s)]

RECURSIVE VehicleLoop(_, _)

VehicleString(b, field, out) ==
    IF ~b.ok THEN Propagate(b)
    ELSE VehicleLoop(b.r, VehicleStore(out, field, Utf8Ignore(b.val)))

VehicleSkipped(k, out) == IF ~k.ok THEN Propagate(k) ELSE VehicleLoop(k.r, out)

VehicleField(r, field, wt, out) ==
    IF wt = 2 /\ field \in {1, 2, 3} THEN VehicleString(ReadLengthDelimited(r), field, out)
    ELSE VehicleSkipped(skip_field(r, wt), out)

VehicleTag(t, out) ==
    IF ~t.ok THEN Propagate(t)
    ELSE VehicleField(t.r, FieldOf(t.val), WireOf(t.val), out)

VehicleLoop(r, out) == IF eof(r) THEN Returned(r, out) ELSE VehicleTag(read_varint(r), out)

parse_vehicle_descriptor(d) == VehicleLoop(ProtoReader(d), VehicleNone)

(***************************************************************************)
(* _parse_position                                                         *)
(***************************************************************************)
PositionNone == [latitude |-> None, longitude |-> None, bearing |-> None, speed |-> None]

PositionStore(out, field, f) ==
    CASE field = 1 -> [out EXCEPT !.latitude = Float(f)]
      [] field = 2 -> [out EXCEPT !.longitude = Float(f)]
      [] field = 3 -> [out EXCEPT !.bearing = Float(f)]
      [] field = 5 -> [out EXCEPT !.speed = Float(f)]

RECURSIVE PositionLoop(_, _)

PositionFloat(f, field, out) ==
    IF ~f.ok THEN Propagate(f)
    ELSE PositionLoop(f.r, PositionStore(out, field, f.val))

PositionSkipped(k, out) == IF ~k.ok THEN Propagate(k) ELSE PositionLoop(k.r, out)

PositionField(r, field, wt, out) ==
    IF wt = 5 /\ field \in {1, 2, 3, 5} THEN PositionFloat(read_float(r), field, out)
    ELSE PositionSkipped(skip_field(r, wt), out)

PositionTag(t, out) ==
    IF ~t.ok THEN Propagate(t)
    ELSE PositionField(t.r, FieldOf(t.val), WireOf(t.val), out)

PositionLoop(r, out) == IF eof(r) THEN Returned(r, out) ELSE PositionTag(read_varint(r), out)

parse_position(d) == PositionLoop(ProtoReader(d), PositionNone)

(***************************************************************************)
(* _parse_vehicle_position                                                 *)
(***************************************************************************)
VehiclePositionNone ==
    [trip_id |-> None, route_id |-> None, direction_id |-> None,
     start_time |-> None, start_date |-> None,
     vehicle_id |-> None, vehicle_label |-> None, license_plate |-> None,
     latitude |-> None, longitude |-> None, bearing |-> None, speed |-> None,
     current_stop_id |-> None, timestamp |-> None]

\* a merge that keeps the value of out where sub holds None
UpdateMerge(out, sub) ==
    [k \in DOMAIN out |-> IF k \in DOMAIN sub /\ sub[k] # None THEN sub[k] ELSE out[k]]

\* out.update(sub): every key of sub replaces the key of out
Update(out, sub) == [k \in DOMAIN out |-> IF k \in DOMAIN sub THEN sub[k] ELSE out[k]]

\* The nested assembler of a submessage field of VehiclePosition.
VehiclePositionSub(field, sub) ==
    CASE field = 1 -> parse_trip_descriptor(sub)
      [] field = 8 -> parse_vehicle_descriptor(sub)
      [] field = 2 -> parse_position(sub)

RECURSIVE VehiclePositionLoop(_, _)

\* m is the outcome of the nested assembler, r the reader past the slice
VehiclePositionMerge(m, r, out) ==
    IF ~m.ok THEN Raised(r, m.err)
    ELSE VehiclePositionLoop(r, Update(out, m.out))

VehiclePositionNested(b, field, out) ==
    IF ~b.ok THEN Propagate(b)
    ELSE VehiclePositionMerge(VehiclePositionSub(field, b.val), b.r, out)

VehiclePositionStop(b, out) ==
    IF ~b.ok THEN Propagate(b)
    ELSE VehiclePositionLoop(b.r, [out EXCEPT !.current_stop_id = Str(Utf8Ignore(b.val))])

VehiclePositionTimestamp(d, out) ==
    IF ~d.ok THEN Propagate(d)
    ELSE VehiclePositionLoop(d.r, [out EXCEPT !.timestamp = PyInt(d.val)])

VehiclePositionSkipped(k, out) ==
    IF ~k.ok THEN Propagate(k) ELSE VehiclePositionLoop(k.r, out)

VehiclePositionField(r, field, wt, out) ==
    IF wt = 2 /\ field \in {1, 8, 2}
    THEN VehiclePositionNested(ReadLengthDelimited(r), field, out)
    ELSE IF wt = 2 /\ field = 7 THEN VehiclePositionStop(ReadLengthDelimited(r), out)
    ELSE IF wt = 0 /\ field = 5 THEN VehiclePositionTimestamp(read_varint(r), out)
    ELSE VehiclePositionSkipped(skip_field(r, wt), out)

VehiclePositionTag(t, out) ==
    IF ~t.ok THEN Propagate(t)
    ELSE VehiclePositionField(t.r, FieldOf(t.val), WireOf(t.val), out)

VehiclePositionLoop(r, out) ==
    IF eof(r) THEN Returned(r, out) ELSE VehiclePositionTag(read_varint(r), out)

parse_vehicle_position(d) == VehiclePositionLoop(ProtoReader(d), VehiclePositionNone)

(***************************************************************************)
(* _parse_feed_entity_vehicle: the vehicle is <<>> for None, else <<dict>> *)
(***************************************************************************)
\* the field test of the entity loop with the vehicle on field 2
IsVehicleField2(field, wt) == field = 2 /\ wt = 2

\* "if field == 4 and wt == 2"
IsVehicleField(field, wt) == field = 4 /\ wt = 2

RECURSIVE FeedEntityLoop(_, _)

FeedEntityAssign(m, r) ==
    IF ~m.ok THEN Raised(r, m.err) ELSE FeedEntityLoop(r, <<m.out>>)

FeedEntityNested(b) ==
    IF ~b.ok THEN Propagate(b)
    ELSE FeedEntityAssign(parse_vehicle_position(b.val), b.r)

FeedEntitySkipped(k, vehicle) ==
    IF ~k.ok THEN Propagate(k) ELSE FeedEntityLoop(k.r, vehicle)

FeedEntityField(r, field, wt, vehicle) ==
    IF IsVehicleField(field, wt) THEN FeedEntityNested(ReadLengthDelimited(r))
    ELSE FeedEntitySkipped(skip_field(r, wt), vehicle)

FeedEntityTag(t, vehicle) ==
    IF ~t.ok THEN Propagate(t)
    ELSE FeedEntityField(t.r, FieldOf(t.val), WireOf(t.val), vehicle)

FeedEntityLoop(r, vehicle) ==
    IF eof(r) THEN Returned(r, vehicle) ELSE FeedEntityTag(read_varint(r), vehicle)

parse_feed_entity_vehicle(d) == FeedEntityLoop(ProtoReader(d), <<>>)

(***************************************************************************)
(* _parse_feed_message_vehicles                                            *)
(***************************************************************************)
RECURSIVE FeedMessageLoop(_, _)

FeedMessageHeader(b, vehicles) ==
    IF ~b.ok THEN Propagate(b) ELSE FeedMessageLoop(b.r, vehicles)

\* an append that puts the newest vehicle first
FeedMessagePrepend(v, r, vehicles) ==
    IF ~v.ok THEN Raised(r, v.err) ELSE FeedMessageLoop(r, v.out \o vehicles)

\* "if v is not None: vehicles.append(v)"
FeedMessageAppend(v, r, vehicles) ==
    IF ~v.ok THEN Raised(r, v.err) ELSE FeedMessageLoop(r, vehicles \o v.out)

FeedMessageEntity(b, vehicles) ==
    IF ~b.ok THEN Propagate(b)
    ELSE FeedMessageAppend(parse_feed_entity_vehicle(b.val), b.r, vehicles)

FeedMessageSkipped(k, vehicles) ==
    IF ~k.ok THEN Propagate(k) ELSE FeedMessageLoop(k.r, vehicles)

FeedMessageField(r, field, wt, vehicles) ==
    IF field = 1 /\ wt = 2 THEN FeedMessageHeader(ReadLengthDelimited(r), vehicles)
    ELSE IF field = 2 /\ wt = 2 THEN FeedMessageEntity(ReadLengthDelimited(r), vehicles)
    ELSE FeedMessageSkipped(skip_field(r, wt), vehicles)

\* a tag read without the try around it
FeedMessageTagRaises(t, vehicles) ==
    IF ~t.ok THEN Propagate(t)
    ELSE FeedMessageField(t.r, FieldOf(t.val), WireOf(t.val), vehicles)

\* "except ValueError: break" around the tag read
FeedMessageTag(t, vehicles) ==
    IF ~t.ok THEN Returned(t.r, vehicles)
    ELSE FeedMessageField(t.r, FieldOf(t.val), WireOf(t.val), vehicles)

FeedMessageLoop(r, vehicles) ==
    IF eof(r) THEN Returned(r, vehicles) ELSE FeedMessageTag(read_varint(r), vehicles)

parse_feed_message_vehicles(d) == FeedMessageLoop(ProtoReader(d), <<>>)

(***************************************************************************)
(* parse_with_bindings and fetch_and_parse_gtfs_data                       *)
(***************************************************************************)
\* a <= b for ints in their unique representation
Leq(a, b) ==
    \/ Len(a) < Len(b)
    \/ /\ Len(a) = Len(b)
       /\ \/ a = b
          \/ \E k \in 1..Len(a) :
                /\ a[k] < b[k]
                /\ \A m \in (k + 1)..Len(a) : a[m] = b[m]

\* 2^31 - 1: every platform's localtime converts a timestamp up to here.
SafeTimestamp == <<127, 127, 127, 127, 7>>
\* One day past 9999-12-31T23:59:59Z: no platform or timezone converts a
\* timestamp beyond it (datetime.MAXYEAR).
LastTimestamp == <<127, 37, 86, 127, 47, 7>>

\* datetime.datetime.fromtimestamp(timestamp) inside "try / except
\* (OverflowError, OSError, ValueError): pos_dt = None".  Between the two
\* limits the outcome depends on the platform's localtime and on the local
\* timezone; accepts says whether this platform converts such a value.
FromTimestamp(ts, accepts) ==
    IF ts.t # "int" THEN None
    ELSE IF Leq(ts.v, SafeTimestamp) THEN DateTime(ts.v)
    ELSE IF Leq(ts.v, LastTimestamp) /\ accepts THEN DateTime(ts.v)
    ELSE None

\* datetime.datetime.now(), read once per call
Now == [t |-> "now", v |-> <<>>]

VehicleRecord(vp, accepts) ==
    [vehicle_id |-> vp.vehicle_id,
     vehicle_label |-> vp.vehicle_label,
     license_plate |-> vp.license_plate,
     trip_id |-> vp.trip_id,
     route_id |-> vp.route_id,
     direction_id |-> vp.direction_id,
     start_time |-> vp.start_time,
     start_date |-> vp.start_date,
     latitude |-> vp.latitude,
     longitude |-> vp.longitude,
     bearing |-> vp.bearing,
     speed |-> vp.speed,
     current_stop_id |-> vp.current_stop_id,
     position_timestamp |-> FromTimestamp(vp.timestamp, accepts),
     last_updated |-> Now]

\* the loop "for vp in raw_vehicles" over the outcome of the raw parse
RecordsOfRaw(raw, accepts) ==
    IF ~raw.ok THEN raw
    ELSE [raw EXCEPT !.out = [k \in 1..Len(raw.out) |-> VehicleRecord(raw.out[k], accepts)]]

parse_with_bindings(feed_data, accepts) ==
    RecordsOfRaw(parse_feed_message_vehicles(feed_data), accepts)

\* "return parse_with_bindings(data)" inside "try / except Exception:
\* AddError(...); return []"
ReturnOrCatch(p) ==
    IF p.ok THEN [ok |-> TRUE, i |-> p.i, out |-> p.out, err |-> ""]
    ELSE [ok |-> TRUE, i |-> p.i, out |-> <<>>, err |-> "Error fetching GTFS data: " \o p.err]

\* fetch_and_parse_gtfs_data: response is <<data>> when urlopen and read
\* succeed and <<>> when they raise.  Every exception ends in "return []";
\* err keeps what AddError reported.
fetch_and_parse_gtfs_data(response, accepts) ==
    IF response = <<>>
    THEN [ok |-> TRUE, i |-> 0, out |-> <<>>, err |-> "Error fetching GTFS data: network"]
    ELSE ReturnOrCatch(parse_with_bindings(response[1], accepts))

(***************************************************************************)
(* Inputs of the reader.                                                   *)
(***************************************************************************)
Alphabet == {0, 1, 2, 127, 128, 255}

RECURSIVE SeqsUpTo(_, _)
SeqsUpTo(S, k) ==
    IF k = 0 THEN {<<>>}
    ELSE LET shorter == SeqsUpTo(S, k - 1)
         IN  shorter \cup {Append(s, x) : s \in {t \in shorter : Len(t) = k - 1}, x \in S}

Rep(x, k) == [j \in 1..k |-> x]

\* Sample ints of every encoded length 1..10, all below 2^64.
Values64 ==
    {<<>>} \cup
    {Rep(lo, k - 1) \o <<hi>> : lo \in {0, 1, 127}, hi \in {1, 127}, k \in 1..9} \cup
    {Rep(lo, 9) \o <<1>> : lo \in {0, 1, 127}}

\* Canonical varint encoding of an int: its groups, low group first, every
\* byte but the last with the continuation bit set.
EncodeVarint(v) ==
    IF v = <<>> THEN <<0>>
    ELSE [k \in 1..Len(v) |-> IF k < Len(v) THEN v[k] + 128 ELSE v[k]]

\* Encodings of nine to eleven bytes whose last bytes are arbitrary.
LongRuns ==
    {Rep(c, k) \o <<t>> : c \in {128, 255}, k \in 8..10, t \in Alphabet}

ReaderBuffers ==
    SeqsUpTo(Alphabet, MaxBufLen)
    \cup {EncodeVarint(v) \o t : v \in Values64, t \in SeqsUpTo({1, 128}, MaxTail)}
    \cup LongRuns

WireTypes == 0..7

NoCall == [op |-> "none", arg |-> 0, ok |-> TRUE, before |-> 0, val |-> NoVal, err |-> ""]

Called(op, arg, q) ==
    /\ rd' = q.r
    /\ last' = [op |-> op, arg |-> arg, ok |-> q.ok, before |-> rd.i, val |-> q.val,
                err |-> q.err]
    /\ UNCHANGED asmVars
    /\ UNCHANGED runVars

RdReadVarint == Called("read_varint", 0, read_varint(rd))

RdReadBytes == \E length \in 0..MaxReadLen : Called("read_bytes", length, read_bytes(rd, length))

RdReadFloat == Called("read_float", 4, read_float(rd))

RdReadDouble == Called("read_double", 8, read_double(rd))

RdSkipField == \E wt \in WireTypes : Called("skip_field", wt, skip_field(rd, wt))

\* No script runs.
RunIdle ==
    /\ script = "none"
    /\ max_retries = 0
    /\ base_delay = 0
    /\ attempt = 0
    /\ log = <<>>
    /\ fetched = <<>>
    /\ valid = <<>>
    /\ route = [t |-> "None", v |-> <<>>]
    /\ vtype = ""

AsmIdle ==
    /\ kind = "none"
    /\ fields = <<>>
    /\ buf = <<>>
    /\ pc = "idle"
    /\ res = [ok |-> TRUE, i |-> 0, out |-> <<>>]

Init ==
    /\ \E d \in ReaderBuffers : rd = ProtoReader(d)
    /\ last = NoCall
    /\ stack = <<>>
    /\ AsmIdle
    /\ RunIdle

Next ==
    \/ RdReadVarint
    \/ RdReadBytes
    \/ RdReadFloat
    \/ RdReadDouble
    \/ RdSkipField

Spec == Init /\ [][Next]_vars

(***************************************************************************)
(* Inputs of the assemblers: messages serialised from wire fields.         *)
(*   num, wt  field number and wire type of the tag                        *)
(*   decl     declared length of a length-delimited value                  *)
(*   val      bytes of the value as they are on the wire                   *)
(*   x        the value those bytes stand for (code points, groups, bits)  *)
(*   good     the field is well-formed, and so is the message nested in it *)
(*   grp      the first malformation met in it is a group marker           *)
(*   raw      val is put on the wire as it is, without tag or length       *)
(***************************************************************************)
RECURSIVE ToGroups(_)
ToGroups(k) == IF k = 0 THEN <<>> ELSE <<k % 128>> \o ToGroups(k \div 128)

TagBytes(f) == EncodeVarint(ToGroups(f.num * 8 + f.wt))

EncField(f) ==
    IF f.raw THEN f.val
    ELSE IF f.wt = 2 THEN TagBytes(f) \o EncodeVarint(ToGroups(f.decl)) \o f.val
    ELSE TagBytes(f) \o f.val

RECURSIVE EncMsg(_)
EncMsg(fs) == IF fs = <<>> THEN <<>> ELSE EncField(Head(fs)) \o EncMsg(Tail(fs))

AllGood(fs) == \A k \in 1..Len(fs) : fs[k].good

\* The first field of fs that is not well-formed fails on a group marker.
GroupFirst(fs) ==
    \E k \in 1..Len(fs) :
        /\ ~fs[k].good
        /\ fs[k].grp
        /\ \A j \in 1..(k - 1) : fs[j].good

WireField(n, w, l, v, xv, g, gr) ==
    [num |-> n, wt |-> w, decl |-> l, val |-> v, x |-> xv, good |-> g, grp |-> gr,
     raw |-> FALSE]

StrF(n, s) == WireField(n, 2, Len(s), s, s, TRUE, FALSE)
VarF(n, g) == WireField(n, 0, 0, EncodeVarint(g), g, TRUE, FALSE)
F32(n, b) == WireField(n, 5, 0, b, b, TRUE, FALSE)
F64(n, b) == WireField(n, 1, 0, b, b, TRUE, FALSE)
GroupF(n, w) == WireField(n, w, 0, <<>>, <<>>, FALSE, TRUE)
\* a length-delimited field that declares one byte more than it has
TruncF(n, s) == WireField(n, 2, Len(s) + 1, s, s, FALSE, FALSE)
\* a submessage that the assembler decodes
SubF(n, m) == WireField(n, 2, Len(EncMsg(m)), EncMsg(m), <<>>, AllGood(m), GroupFirst(m))
\* bytes that end inside a tag
RawF(v) == [WireField(0, 0, 0, v, <<>>, FALSE, FALSE) EXCEPT !.raw = TRUE]

StrA == <<65>>
StrB == <<66>>
Bits1 == <<0, 0, 128, 63>>
Bits2 == <<0, 0, 0, 64>>
Bits64 == <<0, 0, 0, 0, 0, 0, 240, 63>>
Ts1 == <<5>>
TsReal == <<0, 98, 79, 42, 6>>
TsHuge == Rep(127, 9) \o <<1>>

\* Fields of TripDescriptor, VehicleDescriptor and Position messages.
LeafPool ==
    {StrF(n, s) : n \in {1, 2, 3, 5}, s \in {StrA, StrB}}
    \cup {VarF(6, g) : g \in {<<>>, <<1>>}}
    \cup {F32(n, b) : n \in {1, 2, 3, 5}, b \in {Bits1, Bits2}}
    \cup {F64(9, Bits64), VarF(1, <<1>>), StrF(2, <<>>)}
    \cup {GroupF(1, 3), GroupF(9, 4), TruncF(2, StrA)}

TripA == <<StrF(1, StrA), StrF(5, StrA), VarF(6, <<1>>)>>
TripB == <<StrF(1, StrB)>>
TripGroup == <<StrF(1, StrA), GroupF(2, 3)>>
PosA == <<F32(1, Bits1), F32(2, Bits2)>>
PosB == <<F32(1, Bits2)>>
VehA == <<StrF(1, StrA), StrF(2, StrB)>>
\* a trip whose trip_id is a zero-length string
TripEmpty == <<StrF(1, <<>>), StrF(5, StrA)>>

\* Fields of VehiclePosition messages.
VehiclePositionPool ==
    {SubF(1, TripA), SubF(1, TripB), SubF(1, TripGroup)}
    \cup {SubF(2, PosA), SubF(2, PosB), SubF(8, VehA)}
    \cup {StrF(7, StrA), StrF(7, StrB), VarF(5, Ts1), VarF(5, TsReal), VarF(5, TsHuge)}
    \cup {VarF(3, <<1>>), GroupF(3, 3), GroupF(7, 4), TruncF(7, StrA)}
    \cup {SubF(1, TripEmpty), StrF(7, <<>>)}

VpA == <<SubF(1, TripA), SubF(2, PosA), VarF(5, Ts1), SubF(8, VehA)>>
VpB == <<SubF(2, PosB)>>
VpTrunc == <<SubF(2, PosA), TruncF(7, StrA)>>
VpGroup == <<GroupF(3, 3)>>
\* zero-length trip_id and stop_id
VpEmpty == <<SubF(1, TripEmpty), SubF(2, PosA), StrF(7, <<>>)>>
\* a vehicle without a Position
VpNoPos == <<StrF(7, StrA)>>

\* Fields of FeedEntity messages.  A field the assembler does not decode
\* carries its payload as opaque bytes.
FeedEntityPool ==
    {SubF(4, VpA), SubF(4, VpB), SubF(4, VpTrunc), SubF(4, VpGroup)}
    \cup {StrF(2, EncMsg(VpA)), StrF(3, EncMsg(VpA)), StrF(5, EncMsg(VpB))}
    \cup {StrF(1, StrA), VarF(2, <<1>>), VarF(4, <<1>>)}
    \cup {GroupF(4, 3), GroupF(1, 4), TruncF(4, EncMsg(VpB))}
    \cup {SubF(4, VpEmpty), SubF(4, VpNoPos)}

EntA == <<StrF(1, StrA), SubF(4, VpA)>>
EntB == <<SubF(4, VpB)>>
EntNoVehicle == <<StrF(1, StrB), StrF(3, StrA)>>
EntTrunc == <<StrF(1, StrA), SubF(4, VpTrunc)>>
EntTruncTop == <<StrF(1, StrA), TruncF(4, EncMsg(VpB))>>
EntGroup == <<GroupF(1, 3)>>
EntField2 == <<StrF(1, StrA), StrF(2, EncMsg(VpA))>>
EntEmpty == <<SubF(4, VpEmpty)>>
EntNoPos == <<StrF(1, StrB), SubF(4, VpNoPos)>>

\* The well-formed entities, by their fields.
GoodEntities == {EntA, EntB, EntNoVehicle, EntField2, EntEmpty, EntNoPos}

\* FeedHeader: 1 = gtfs_realtime_version, 3 = timestamp
Header == SubF(1, <<StrF(1, <<50>>), VarF(3, Ts1)>>)
HeaderNoTs == SubF(1, <<StrF(1, <<50>>)>>)

\* Entities in which a length-delimited field declares more bytes than
\* remain in the entity's slice.
TruncatedEntities == {SubF(2, EntTrunc), SubF(2, EntTruncTop)}

\* Fields of FeedMessage after the header.
FeedMessagePool ==
    {SubF(2, e) : e \in GoodEntities}
    \cup TruncatedEntities
    \cup {SubF(2, EntGroup), VarF(9, <<1>>), GroupF(3, 3), TruncF(2, EncMsg(EntB)),
          RawF(<<128>>)}

FeedInputs ==
    {h \o es : h \in {<<>>, <<Header>>, <<HeaderNoTs>>},
              es \in SeqsUpTo(FeedMessagePool, MaxEntities)}

\* The (field number, wire type) pairs each assembler decodes.
Mapping(k) ==
    CASE k = "trip" -> {<<1, 2>>, <<2, 2>>, <<3, 2>>, <<5, 2>>, <<6, 0>>}
      [] k = "vehicle" -> {<<1, 2>>, <<2, 2>>, <<3, 2>>}
      [] k = "position" -> {<<1, 5>>, <<2, 5>>, <<3, 5>>, <<5, 5>>}
      [] k = "vehicle_position" -> {<<1, 2>>, <<2, 2>>, <<7, 2>>, <<8, 2>>, <<5, 0>>}

Mapped(k, f) == <<f.num, f.wt>> \in Mapping(k)

PoolOf(k) == IF k = "vehicle_position" THEN VehiclePositionPool ELSE LeafPool

\* Messages with one well-formed field the assembler does not decode
\* between two fields it decodes.
InsertedInputs(k) ==
    {<<a, u, b>> : a \in {f \in PoolOf(k) : f.good /\ Mapped(k, f)},
                   u \in {f \in PoolOf(k) : f.good /\ ~Mapped(k, f)},
                   b \in {f \in PoolOf(k) : f.good /\ Mapped(k, f)}}

InputsOf(k) ==
    CASE k \in {"trip", "vehicle", "position"} ->
            SeqsUpTo(LeafPool, MaxFields) \cup InsertedInputs(k)
      [] k = "vehicle_position" ->
            SeqsUpTo(VehiclePositionPool, MaxFields) \cup InsertedInputs(k)
      [] k = "feed_entity" -> SeqsUpTo(FeedEntityPool, MaxFields)
      [] k \in {"feed_message", "fetch"} -> FeedInputs

AssemblerKinds ==
    {"trip", "vehicle", "position", "vehicle_position", "feed_entity", "feed_message"}

Kinds == AssemblerKinds \cup {"fetch"}

RdIdle ==
    /\ rd = ProtoReader(<<>>)
    /\ last = NoCall
    /\ stack = <<>>

InitAsm ==
    /\ RdIdle
    /\ \E k \in Kinds : \E fs \in InputsOf(k) :
        /\ kind = k
        /\ fields = fs
        /\ buf = EncMsg(fs)
    /\ pc = "ready"
    /\ res = [ok |-> TRUE, i |-> 0, out |-> <<>>, err |-> ""]
    /\ RunIdle

Apply(k, outcome) ==
    /\ pc = "ready"
    /\ kind = k
    /\ res' = outcome
    /\ pc' = "done"
    /\ UNCHANGED <<kind, fields, buf, stack>>
    /\ UNCHANGED rdVars
    /\ UNCHANGED runVars

ParseTripDescriptor == Apply("trip", parse_trip_descriptor(buf))

ParseVehicleDescriptor == Apply("vehicle", parse_vehicle_descriptor(buf))

ParsePosition == Apply("position", parse_position(buf))

ParseVehiclePosition == Apply("vehicle_position", parse_vehicle_position(buf))

ParseFeedEntityVehicle == Apply("feed_entity", parse_feed_entity_vehicle(buf))

ParseFeedMessageVehicles == Apply("feed_message", parse_feed_message_vehicles(buf))

\* The server answers with buf, or the request fails.
FetchAndParse ==
    \E response \in {<<>>, <<buf>>} : \E accepts \in BOOLEAN :
        Apply("fetch", fetch_and_parse_gtfs_data(response, accepts))

NextAsm ==
    \/ ParseTripDescriptor
    \/ ParseVehicleDescriptor
    \/ ParsePosition
    \/ ParseVehiclePosition
    \/ ParseFeedEntityVehicle
    \/ ParseFeedMessageVehicles
    \/ FetchAndParse

SpecAsm == InitAsm /\ [][NextAsm]_vars

(***************************************************************************)
(* Reference description of the wire format, used to state the claims      *)
(* about the reader independently of the way the reader computes.          *)
(***************************************************************************)
Min(a, b) == IF a < b THEN a ELSE b

\* Offsets q such that the bytes p..q-1 of d are a complete varint of at
\* most ten bytes: all but the last have the continuation bit set.
VarintEnds(d, p) ==
    {q \in (p + 1)..Min(Len(d), p + 10) :
        /\ d[q] < 128
        /\ \A k \in (p + 1)..(q - 1) : d[k] >= 128}

HasVarintAt(d, p) == VarintEnds(d, p) # {}
VarintEndAt(d, p) == CHOOSE q \in VarintEnds(d, p) : TRUE
VarintGroupsAt(d, p) == Norm([k \in 1..(VarintEndAt(d, p) - p) |-> d[p + k] % 128])

\* The buffer ends inside a varint that starts at p.
EndsInsideVarint(d, p) == \A k \in (p + 1)..Len(d) : d[k] >= 128

\* The value of a field of wire type wt that starts at offset p is whole.
ValueComplete(d, p, wt) ==
    CASE wt = 0 -> HasVarintAt(d, p)
      [] wt = 1 -> p + 8 <= Len(d)
      [] wt = 5 -> p + 4 <= Len(d)
      [] wt = 2 -> /\ HasVarintAt(d, p)
                   /\ IsSmall(VarintGroupsAt(d, p))
                   /\ VarintEndAt(d, p) + Num(VarintGroupsAt(d, p)) <= Len(d)
      [] OTHER -> FALSE

\* Offset of the first byte after that value.
ValueEnd(d, p, wt) ==
    CASE wt = 0 -> VarintEndAt(d, p)
      [] wt = 1 -> p + 8
      [] wt = 5 -> p + 4
      [] wt = 2 -> VarintEndAt(d, p) + Num(VarintGroupsAt(d, p))
      [] OTHER -> p

IsPrefixAt(e, d, p) ==
    /\ p + Len(e) <= Len(d)
    /\ \A k \in 1..Len(e) : d[p + k] = e[k]

\* Bytes a successful call of the last kind consumes.
Consumed ==
    CASE last.op = "read_varint" -> VarintEndAt(rd.data, last.before) - last.before
      [] last.op = "skip_field" -> ValueEnd(rd.data, last.before, last.arg) - last.before
      [] OTHER -> last.arg

(***************************************************************************)
(* Claims about _ProtoReader, checked under Spec.                          *)
(***************************************************************************)

\* C2: every primitive read that fails leaves the offset i where it was
\* before the call, and every read that succeeds advances i by exactly the
\* number of bytes it consumed.
C2_FailureAtomic ==
    last.op # "none" =>
        IF last.ok THEN rd.i = last.before + Consumed ELSE rd.i = last.before

\* C3: whatever calls were made, successful or failing, the offset stays
\* within the buffer: 0 <= i <= n, n being the length of the buffer.
C3_CursorBound ==
    /\ rd.n = Len(rd.data)
    /\ 0 <= rd.i
    /\ rd.i <= rd.n

\* A failed length-delimited skip has left the cursor on the end of a
\* non-empty buffer.
C3_Witness ==
    /\ last.op = "skip_field"
    /\ last.arg = 2
    /\ ~last.ok
    /\ rd.n > 0
    /\ rd.i = rd.n

\* C4: read_varint on the canonical encoding of a value below 2^64 returns
\* that value, consumes the 1 to 10 bytes of the encoding and nothing else.
C4_VarintRoundTrip ==
    \A v \in Values64 :
        (last.op = "read_varint" /\ IsPrefixAt(EncodeVarint(v), rd.data, last.before)) =>
            /\ last.ok
            /\ last.val = v
            /\ Len(EncodeVarint(v)) \in 1..10
            /\ rd.i = last.before + Len(EncodeVarint(v))

\* 2^64 - 1 was read back from its ten bytes, and a byte follows it.
C4_Witness ==
    /\ last.op = "read_varint"
    /\ last.ok
    /\ last.val = Rep(127, 9) \o <<1>>
    /\ last.before = 0
    /\ rd.i = 10
    /\ rd.i < rd.n

\* C5: read_varint fails when the buffer ends while the continuation bit
\* of the last byte is set, and fails on more than 64 bits of payload, so
\* a value it returns is below 2^64.
C5_VarintFailures ==
    last.op = "read_varint" =>
        /\ EndsInsideVarint(rd.data, last.before) => ~last.ok
        /\ last.ok => Fits64(last.val)

\* C6: read_float, read_double and read_bytes(length) consume exactly 4, 8
\* and length bytes and return them; each fails, with the truncation
\* error, exactly when that count exceeds the bytes remaining; a
\* length-delimited field declaring more bytes than remain fails.
C6_FixedReads ==
    /\ last.op \in {"read_bytes", "read_float", "read_double"} =>
            /\ last.ok <=> last.before + last.arg <= rd.n
            /\ last.ok =>
                    /\ rd.i = last.before + last.arg
                    /\ last.val = [k \in 1..last.arg |-> rd.data[last.before + k]]
            /\ ~last.ok => last.err = "Truncated protobuf message"
    /\ last.op = "read_float" => last.arg = 4
    /\ last.op = "read_double" => last.arg = 8
    /\ (/\ last.op = "skip_field"
        /\ last.arg = 2
        /\ HasVarintAt(rd.data, last.before)
        /\ ~ValueComplete(rd.data, last.before, 2)) =>
            /\ ~last.ok
            /\ last.err = "Truncated protobuf message"

\* A double was read from the middle of a buffer.
C6_Witness ==
    /\ last.op = "read_double"
    /\ last.ok
    /\ last.before > 0
    /\ rd.i = last.before + 8
    /\ Len(last.val) = 8

\* C7: skip_field on a complete value of wire type 0, 1, 2 or 5 leaves the
\* cursor on the first byte after the value; on wire type 3 or 4 it fails
\* and leaves the offset unchanged.
C7_SkipPositions ==
    last.op = "skip_field" =>
        /\ (last.arg \in {0, 1, 2, 5} /\ ValueComplete(rd.data, last.before, last.arg)) =>
                /\ last.ok
                /\ rd.i = ValueEnd(rd.data, last.before, last.arg)
        /\ last.arg \in {3, 4} =>
                /\ ~last.ok
                /\ rd.i = last.before

\* A length-delimited value with a payload was skipped and bytes follow it.
C7_Witness ==
    /\ last.op = "skip_field"
    /\ last.arg = 2
    /\ last.ok
    /\ rd.i > last.before + 1
    /\ rd.i < rd.n
(***************************************************************************)
(* Claims about the assemblers, checked under SpecAsm.                     *)
(***************************************************************************)
Max(S) == CHOOSE k \in S : \A m \in S : m <= k

\* Index of the field on which GroupFirst(fs) holds.
GroupIndex(fs) ==
    CHOOSE k \in 1..Len(fs) :
        /\ ~fs[k].good
        /\ fs[k].grp
        /\ \A j \in 1..(k - 1) : fs[j].good

\* Vehicles of the well-formed entities of a FeedMessage, in feed order.
RECURSIVE VehiclesOfGood(_)
VehiclesOfGood(fs) ==
    IF fs = <<>> THEN <<>>
    ELSE LET f == Head(fs)
         IN  (IF f.good /\ f.num = 2 /\ f.wt = 2
              THEN parse_feed_entity_vehicle(f.val).out
              ELSE <<>>) \o VehiclesOfGood(Tail(fs))

RecordsOf(vs) == [k \in 1..Len(vs) |-> VehicleRecord(vs[k], TRUE)]

NetworkFailed == res.err = "Error fetching GTFS data: network"

\* C1: when an entity of a FeedMessage is malformed (a length-delimited
\* field in it declares more bytes than remain in the entity's slice), that
\* entity alone is dropped; every well-formed sibling with a vehicle still
\* yields its record and the decode of the FeedMessage is not aborted.
C1_EntityContainment ==
    (/\ pc = "done"
     /\ kind \in {"feed_message", "fetch"}
     /\ ~NetworkFailed
     /\ \A k \in 1..Len(fields) : fields[k].good \/ fields[k] \in TruncatedEntities) =>
        /\ res.ok
        /\ res.out = IF kind = "fetch" THEN RecordsOf(VehiclesOfGood(fields))
                     ELSE VehiclesOfGood(fields)

\* C8: in every assembler a tag of wire type 3 or 4 makes the call fail,
\* whatever the field number; it is not skipped, and the assembler reads
\* nothing after that tag.
C8_GroupsFail ==
    (pc = "done" /\ kind \in AssemblerKinds /\ GroupFirst(fields)) =>
        /\ ~res.ok
        /\ res.err = "Unsupported protobuf wire type"
        /\ res.i = Len(EncMsg(SubSeq(fields, 1, GroupIndex(fields))))

\* A VehiclePosition failed on a group marker that other fields follow.
C8_Witness ==
    /\ pc = "done"
    /\ kind = "vehicle_position"
    /\ Len(fields) = 2
    /\ fields[1].wt \in {3, 4}
    /\ fields[2].good
    /\ ~res.ok
    /\ res.i < Len(buf)

\* The scalar and string fields each assembler decodes.
KnownField(n, w, name, t) == [num |-> n, wt |-> w, name |-> name, t |-> t]

KnownFields(k) ==
    CASE k = "trip" ->
            {KnownField(1, 2, "trip_id", "str"), KnownField(2, 2, "start_time", "str"),
             KnownField(3, 2, "start_date", "str"), KnownField(5, 2, "route_id", "str"),
             KnownField(6, 0, "direction_id", "int")}
      [] k = "vehicle" ->
            {KnownField(1, 2, "vehicle_id", "str"), KnownField(2, 2, "vehicle_label", "str"),
             KnownField(3, 2, "license_plate", "str")}
      [] k = "position" ->
            {KnownField(1, 5, "latitude", "float"), KnownField(2, 5, "longitude", "float"),
             KnownField(3, 5, "bearing", "float"), KnownField(5, 5, "speed", "float")}
      [] k = "vehicle_position" ->
            {KnownField(7, 2, "current_stop_id", "str"), KnownField(5, 0, "timestamp", "int")}
      [] OTHER -> {}

Occurrences(fs, n, w) == {k \in 1..Len(fs) : fs[k].num = n /\ fs[k].wt = w}

\* C9: when a known scalar or string field occurs more than once in a
\* message, the output holds the value of its last occurrence.
C9_LastWins ==
    (pc = "done" /\ AllGood(fields)) =>
        \A f \in KnownFields(kind) :
            LET occ == Occurrences(fields, f.num, f.wt)
            IN  Cardinality(occ) >= 2 =>
                    /\ res.ok
                    /\ res.out[f.name] = [t |-> f.t, v |-> fields[Max(occ)].x]

\* trip_id occurred twice with different values and the second was kept.
C9_Witness ==
    /\ pc = "done"
    /\ kind = "trip"
    /\ Len(fields) = 2
    /\ fields[1] = StrF(1, StrA)
    /\ fields[2] = StrF(1, StrB)
    /\ res.ok
    /\ res.out.trip_id = Str(StrB)

\* The vehicle a FeedEntity yields when its vehicle is field number n:
\* nothing without such a field, else the decoding of the last one.
VehicleFromField(n) ==
    LET occ == Occurrences(fields, n, 2)
    IN  /\ res.ok
        /\ occ = {} => res.out = <<>>
        /\ occ # {} => res.out = <<parse_vehicle_position(fields[Max(occ)].val).out>>

\* C10 as stated: the FeedEntity assembler decodes the VehiclePosition
\* from field number 2 with wire type 2 and from no other field.
C10_VehicleIsField2 ==
    (pc = "done" /\ kind = "feed_entity" /\ AllGood(fields)) => VehicleFromField(2)

\* C10 as amended: the FeedEntity assembler decodes the VehiclePosition
\* from field number 4 with wire type 2 and from no other field; fields 1,
\* 2, 3 and 5 are skipped by wire type and never decoded into a vehicle.
C10_VehicleIsField4 ==
    (pc = "done" /\ kind = "feed_entity" /\ AllGood(fields)) => VehicleFromField(4)

\* An entity with a length-delimited field 2 and a vehicle in field 4 was
\* decoded.
C10_Witness ==
    /\ pc = "done"
    /\ kind = "feed_entity"
    /\ AllGood(fields)
    /\ Occurrences(fields, 2, 2) # {}
    /\ Occurrences(fields, 4, 2) # {}
    /\ res.ok
    /\ res.out # <<>>

\* The assembler of kind k applied to the bytes d.
Decode(k, d) ==
    CASE k = "trip" -> parse_trip_descriptor(d)
      [] k = "vehicle" -> parse_vehicle_descriptor(d)
      [] k = "position" -> parse_position(d)
      [] k = "vehicle_position" -> parse_vehicle_position(d)

\* The output of an assembler that stored nothing.
NoneOf(k) ==
    CASE k = "trip" -> TripNone
      [] k = "vehicle" -> VehicleNone
      [] k = "position" -> PositionNone
      [] k = "vehicle_position" -> VehiclePositionNone

\* The fields of fs that the assembler of kind k decodes.
MappedFields(k, fs) == SelectSeq(fs, LAMBDA f : Mapped(k, f))

\* C11: in the TripDescriptor, VehicleDescriptor, Position and
\* VehiclePosition assemblers only the (field number, wire type) pairs of the
\* message's mapping are decoded; every other well-formed field, a known
\* field number with another wire type included, is skipped and changes no
\* output field: the output is the output of the message without those
\* fields, and all-None when no field of the mapping occurs.
C11_UnknownFieldsIgnored ==
    (pc = "done" /\ kind \in {"trip", "vehicle", "position", "vehicle_position"}
        /\ AllGood(fields)) =>
        /\ res.ok
        /\ res.out = Decode(kind, EncMsg(MappedFields(kind, fields))).out
        /\ MappedFields(kind, fields) = <<>> => res.out = NoneOf(kind)

\* A TripDescriptor with a fixed32 field numbered 1 and a varint field
\* numbered 1 around its trip_id was decoded to the trip_id alone.
C11_Witness ==
    /\ pc = "done"
    /\ kind = "trip"
    /\ Len(fields) = 3
    /\ fields[1] = StrF(1, StrA)
    /\ fields[2] = F32(1, Bits1)
    /\ fields[3] = StrF(5, StrB)
    /\ res.ok
    /\ res.out = [TripNone EXCEPT !.trip_id = Str(StrA), !.route_id = Str(StrB)]

\* The string-valued keys of the output of each assembler.
StringKeys(k) ==
    CASE k = "trip" -> {"trip_id", "route_id", "start_time", "start_date"}
      [] k = "vehicle" -> {"vehicle_id", "vehicle_label", "license_plate"}
      [] k = "position" -> {}
      [] OTHER -> {"trip_id", "route_id", "start_time", "start_date", "vehicle_id",
                   "vehicle_label", "license_plate", "current_stop_id"}

NoEmptyString(d, k) == \A key \in StringKeys(k) : d[key] # Str(<<>>)

\* C12: a zero-length length-delimited value of a string field (trip_id,
\* route_id, start_time, start_date, vehicle_id, vehicle_label,
\* license_plate, current_stop_id) is decoded to None: the field whose last
\* occurrence on the wire is zero-length is None in the output, and no
\* decoded record holds an empty string.
C12_EmptyStringsAbsent ==
    (pc = "done" /\ AllGood(fields) /\ res.ok) =>
        /\ \A f \in KnownFields(kind) :
              LET occ == Occurrences(fields, f.num, f.wt)
              IN  (f.t = "str" /\ occ # {} /\ fields[Max(occ)].decl = 0) =>
                      res.out[f.name] = None
        /\ kind = "vehicle_position" => NoEmptyString(res.out, kind)
        /\ kind \in {"feed_entity", "feed_message", "fetch"} =>
              \A k \in 1..Len(res.out) : NoEmptyString(res.out[k], kind)

\* The timestamp of the FeedHeader of the message, as a datetime.
HeaderTimestamp(fs) ==
    IF \E k \in 1..Len(fs) : fs[k] = Header THEN DateTime(Ts1) ELSE None

\* C13: the position_timestamp of every decoded vehicle is the timestamp of
\* its VehiclePosition when it carries one, else the timestamp of the
\* FeedMessage header when the header carries one, else None.
C13_TimestampResolution ==
    (pc = "done" /\ kind = "fetch" /\ ~NetworkFailed /\ AllGood(fields)) =>
        \A k \in (1..Len(res.out)) \cap (1..Len(VehiclesOfGood(fields))) :
            res.out[k].position_timestamp =
                IF VehiclesOfGood(fields)[k].timestamp # None
                THEN DateTime(VehiclesOfGood(fields)[k].timestamp.v)
                ELSE HeaderTimestamp(fields)

\* The fields of the well-formed entity carried by the field f.
EntityFields(f) == CHOOSE e \in GoodEntities : EncMsg(e) = f.val

\* The vehicle of an entity with fields e: none without a field 4 of wire
\* type 2, else the VehiclePosition of that field.
VehicleOfEntity(e) ==
    IF Occurrences(e, 4, 2) = {} THEN <<>>
    ELSE <<parse_vehicle_position(e[Max(Occurrences(e, 4, 2))].val).out>>

\* One vehicle per entity of fs that carries one, in the order of fs.
RECURSIVE VehiclesInOrder(_)
VehiclesInOrder(fs) ==
    IF fs = <<>> THEN <<>>
    ELSE (IF Head(fs).num = 2 /\ Head(fs).wt = 2
          THEN VehicleOfEntity(EntityFields(Head(fs)))
          ELSE <<>>) \o VehiclesInOrder(Tail(fs))

\* C14: a well-formed FeedMessage is decoded to exactly one record for each
\* FeedEntity that carries a vehicle submessage, in the order of the
\* entities in the feed, and to no record for an entity without one; with no
\* entity the result is empty; a vehicle without latitude and longitude
\* still yields its record.
C14_OneRecordPerVehicle ==
    (pc = "done" /\ kind \in {"feed_message", "fetch"} /\ ~NetworkFailed
        /\ AllGood(fields)) =>
        /\ res.ok
        /\ res.out = IF kind = "fetch" THEN RecordsOf(VehiclesInOrder(fields))
                     ELSE VehiclesInOrder(fields)

\* A feed of an entity without a vehicle followed by an entity whose
\* vehicle has no Position was fetched: one record, without latitude and
\* longitude.
C14_Witness ==
    /\ pc = "done"
    /\ kind = "fetch"
    /\ fields = <<SubF(2, EntNoVehicle), SubF(2, EntNoPos)>>
    /\ Len(res.out) = 1
    /\ res.out[1].latitude = None
    /\ res.out[1].longitude = None
    /\ res.out[1].current_stop_id = Str(StrA)

(***************************************************************************)
(* Floats.  latitude and longitude are Python floats that hold a float32   *)
(* (struct.unpack("<f") in the embedded decoder, a float field of the      *)
(* bindings in the two notebooks); Float(b) keeps the four bytes b of the  *)
(* float32, little-endian.  Python compares two such floats as it compares *)
(* their sign and magnitude bits; a NaN is in no order with anything.      *)
(***************************************************************************)
\* exponent and fraction bits
Magnitude(b) == (b[4] % 128) * 16777216 + b[3] * 65536 + b[2] * 256 + b[1]

IsNegative(b) == b[4] >= 128

\* exponent bits all ones and a fraction that is not zero
IsNaN(b) == Magnitude(b) > 127 * 16777216 + 128 * 65536

\* -0.0 and 0.0 have the same place
FloatOrder(b) == IF IsNegative(b) THEN 0 - Magnitude(b) ELSE Magnitude(b)

\* x <= y
FloatLeq(x, y) == ~IsNaN(x) /\ ~IsNaN(y) /\ FloatOrder(x) <= FloatOrder(y)

\* x == 0
FloatIsZero(x) == Magnitude(x) = 0

\* The float literals of the bounding box: -36.5, -33.5, 137.5, 140.5.
LatMin == <<0, 0, 18, 194>>
LatMax == <<0, 0, 6, 194>>
LonMin == <<0, 128, 9, 67>>
LonMax == <<0, 128, 12, 67>>

(***************************************************************************)
(* validate_and_filter_positions of the three scripts                      *)
(***************************************************************************)
Scripts == {"improvements", "notebook", "embedded"}

\* a box whose southern edge is excluded
InAdelaideBoxOpen(lat, lon) ==
    /\ FloatLeq(LatMin, lat.v) /\ lat.v # LatMin /\ FloatLeq(lat.v, LatMax)
    /\ FloatLeq(LonMin, lon.v) /\ FloatLeq(lon.v, LonMax)

\* "-36.5 <= lat <= -33.5 and 137.5 <= lon <= 140.5"
InAdelaideBox(lat, lon) ==
    /\ FloatLeq(LatMin, lat.v) /\ FloatLeq(lat.v, LatMax)
    /\ FloatLeq(LonMin, lon.v) /\ FloatLeq(lon.v, LonMax)

\* Improvements: None test, zero test, box test
KeepImprovements(v) ==
    IF v.latitude = None \/ v.longitude = None THEN FALSE
    ELSE IF FloatIsZero(v.latitude.v) \/ FloatIsZero(v.longitude.v) THEN FALSE
    ELSE InAdelaideBox(v.latitude, v.longitude)

\* Notebook: "is not None" test around the box test
KeepNotebook(v) ==
    IF v.latitude # None /\ v.longitude # None
    THEN InAdelaideBox(v.latitude, v.longitude)
    ELSE FALSE

\* a validator without the box test
KeepPresent(v) == v.latitude # None /\ v.longitude # None

\* embedded decoder: None test, box test
KeepEmbedded(v) ==
    IF v.latitude = None \/ v.longitude = None THEN FALSE
    ELSE InAdelaideBox(v.latitude, v.longitude)

Keep(s, v) ==
    CASE s = "improvements" -> KeepImprovements(v)
      [] s = "notebook" -> KeepNotebook(v)
      [] s = "embedded" -> KeepEmbedded(v)

\* a validator that lets every record through
ValidateNothing(s, vs) == vs

\* the loop "for v in vehicles: ... valid.append(v)"
validate_and_filter_positions(s, vs) == SelectSeq(vs, LAMBDA v : Keep(s, v))

(***************************************************************************)
(* classify_vehicle_type.  A str is the sequence of its code points; the   *)
(* str methods are exact for code points below 256.                        *)
(***************************************************************************)
\* str.upper() of one character
UpperChar(c) ==
    IF c \in (97..122) \cup (224..246) \cup (248..254) THEN <<c - 32>>
    ELSE IF c = 181 THEN <<924>>
    ELSE IF c = 223 THEN <<83, 83>>
    ELSE IF c = 255 THEN <<376>>
    ELSE <<c>>

RECURSIVE Upper(_)
Upper(s) == IF s = <<>> THEN <<>> ELSE UpperChar(Head(s)) \o Upper(Tail(s))

\* str.isspace() of one character
IsSpace(c) == c \in {9, 10, 11, 12, 13, 28, 29, 30, 31, 32, 133, 160}

RECURSIVE LStrip(_)
LStrip(s) == IF s # <<>> /\ IsSpace(Head(s)) THEN LStrip(Tail(s)) ELSE s

RECURSIVE RStrip(_)
RStrip(s) ==
    IF s # <<>> /\ IsSpace(s[Len(s)]) THEN RStrip(SubSeq(s, 1, Len(s) - 1)) ELSE s

\* str.strip()
Strip(s) == RStrip(LStrip(s))

\* str.isalpha() of one character
IsAlphaChar(c) ==
    c \in (65..90) \cup (97..122) \cup {170, 181, 186} \cup (192..214) \cup (216..246)
          \cup (248..255) \cup {376, 924}

\* str.isalpha(): False for the empty str
IsAlpha(s) == s # <<>> /\ \A k \in 1..Len(s) : IsAlphaChar(s[k])

GLNELG == <<71, 76, 78, 69, 76, 71>>
BTANIC == <<66, 84, 65, 78, 73, 67>>

\* the set {"GLNELG", "BTANIC"} of Improvements
TramRoutes == {GLNELG, BTANIC}
\* the list ["GLNELG", "BTANIC"] of Notebook
TramRouteList == <<GLNELG, BTANIC>>

\* "if not route_id"
IsFalsy(route_id) == route_id = None \/ route_id.v = <<>>

\* a classification that tests isalpha before the tram routes
ClassifyTrainFirst(route_id) ==
    IF IsFalsy(route_id) THEN "Unknown"
    ELSE IF IsAlpha(Strip(Upper(route_id.v))) THEN "Train"
    ELSE IF Strip(Upper(route_id.v)) \in TramRoutes THEN "Tram"
    ELSE "Bus"

\* Improvements
classify_vehicle_type(route_id) ==
    IF IsFalsy(route_id) THEN "Unknown"
    ELSE IF Strip(Upper(route_id.v)) \in TramRoutes THEN "Tram"
    ELSE IF IsAlpha(Strip(Upper(route_id.v))) THEN "Train"
    ELSE "Bus"

\* Notebook
ClassifyNotebook(route_id) ==
    IF IsFalsy(route_id) THEN "Unknown"
    ELSE IF \E k \in 1..Len(TramRouteList) : TramRouteList[k] = Strip(Upper(route_id.v))
         THEN "Tram"
    ELSE IF IsAlpha(Strip(Upper(route_id.v))) THEN "Train"
    ELSE "Bus"

Classify(s, route_id) ==
    IF s = "notebook" THEN ClassifyNotebook(route_id) ELSE classify_vehicle_type(route_id)

(***************************************************************************)
(* Inputs of the validator and of the classifier, and their specification. *)
(***************************************************************************)
\* A float32 by its bytes b, with the number it stands for: x is its value
\* in units of 2^-18 degree (exact for every sample), nan says it is a NaN.
Coord(b, x) == [b |-> b, x |-> x, nan |-> FALSE]

ZeroCoord == Coord(<<0, 0, 0, 0>>, 0)
NaNCoord == [b |-> <<0, 0, 192, 127>>, x |-> 0, nan |-> TRUE]

SampleLatitudes ==
    {Coord(<<0, 0, 18, 194>>, -9568256),        \* -36.5
     Coord(<<1, 0, 18, 194>>, -9568257),        \* the float32 next below -36.5
     Coord(<<3, 0, 18, 194>>, -9568259),        \* -36.50001
     Coord(<<255, 255, 17, 194>>, -9568255),    \* the float32 next above -36.5
     Coord(<<154, 153, 11, 194>>, -9148826),    \* -34.9
     Coord(<<0, 0, 6, 194>>, -8781824),         \* -33.5
     Coord(<<255, 255, 5, 194>>, -8781823),     \* the float32 next above -33.5
     Coord(<<0, 0, 18, 66>>, 9568256),          \* 36.5
     Coord(<<0, 0, 0, 128>>, 0),                \* -0.0
     ZeroCoord, NaNCoord}

SampleLongitudes ==
    {Coord(<<0, 128, 9, 67>>, 36044800),        \* 137.5
     Coord(<<255, 127, 9, 67>>, 36044796),      \* the float32 next below 137.5
     Coord(<<154, 153, 10, 67>>, 36333160),     \* 138.6
     Coord(<<0, 128, 12, 67>>, 36831232),       \* 140.5
     Coord(<<1, 128, 12, 67>>, 36831236),       \* the float32 next above 140.5
     Coord(<<154, 153, 10, 195>>, -36333160),   \* -138.6
     ZeroCoord, NaNCoord}

\* The sample whose bytes are b.
Sample(b) == CHOOSE c \in SampleLatitudes \cup SampleLongitudes : c.b = b

\* A record as parse_with_bindings builds it (a key the bindings-based
\* scripts leave out reads as None through dict.get).
SampleRecord(id, lat, lon, rt) ==
    [vehicle_id |-> Str(id), vehicle_label |-> None, license_plate |-> None,
     trip_id |-> None, route_id |-> rt, direction_id |-> None,
     start_time |-> None, start_date |-> None,
     latitude |-> lat, longitude |-> lon, bearing |-> None, speed |-> None,
     current_stop_id |-> None, position_timestamp |-> None, last_updated |-> Now]

LatGood == Float(<<154, 153, 11, 194>>)
LonGood == Float(<<154, 153, 10, 67>>)

ValidatorVehicles ==
    {SampleRecord(StrA, Float(c.b), LonGood, None) : c \in SampleLatitudes}
    \cup {SampleRecord(StrA, LatGood, Float(c.b), None) : c \in SampleLongitudes}
    \cup {SampleRecord(StrB, None, LonGood, None), SampleRecord(StrB, LatGood, None, None),
          SampleRecord(StrB, None, None, None),
          SampleRecord(StrB, Float(ZeroCoord.b), Float(ZeroCoord.b), None),
          SampleRecord(StrB, Float(<<0, 0, 18, 66>>), Float(<<154, 153, 10, 195>>), None)}

OUTERHBF == <<79, 85, 84, 69, 82, 72, 66, 70>>

NamedRoutes ==
    {GLNELG, BTANIC, OUTERHBF,
     <<55, 52, 51>>,                             \* "743"
     <<103, 108, 110, 101, 108, 103>>,           \* "glnelg"
     <<32, 66, 116, 97, 110, 105, 99, 9>>,       \* " Btanic\t"
     <<71, 76, 78, 69, 76, 71, 49>>,             \* "GLNELG1"
     <<71, 76, 78, 32, 69, 76, 71>>,             \* "GLN ELG"
     <<32, 79, 85, 84, 69, 82, 32>>,             \* " OUTER "
     <<71, 49, 48>>,                             \* "G10"
     <<32, 32, 32>>,                             \* "   "
     <<102, 108, 117, 223>>}                     \* "fluß"

\* "A", "g", "7", " " and "é"
RouteAlphabet == {65, 103, 55, 32, 233}

RouteIds ==
    {None} \cup {Str(r) : r \in NamedRoutes \cup SeqsUpTo(RouteAlphabet, MaxRouteLen)}

\* The assembler variables while a script runs.
AsmUnused ==
    /\ kind = "none"
    /\ fields = <<>>
    /\ buf = <<>>
    /\ res = [ok |-> TRUE, i |-> 0, out |-> <<>>]

InitVal ==
    /\ RdIdle
    /\ AsmUnused
    /\ pc \in {"validate", "classify"}
    /\ script \in Scripts
    /\ max_retries = 0
    /\ base_delay = 0
    /\ attempt = 0
    /\ log = <<>>
    /\ valid = <<>>
    /\ vtype = ""
    /\ IF pc = "validate"
       THEN /\ fetched \in SeqsUpTo(ValidatorVehicles, MaxVehicles)
            /\ route = None
       ELSE /\ script # "embedded"
            /\ fetched = <<>>
            /\ route \in RouteIds

ValidateAndFilterPositions ==
    /\ pc = "validate"
    /\ valid' = validate_and_filter_positions(script, fetched)
    /\ pc' = "validated"
    /\ UNCHANGED <<rd, last, kind, fields, buf, res, stack>>
    /\ UNCHANGED <<script, max_retries, base_delay, attempt, log, fetched, route, vtype>>

ClassifyVehicleType ==
    /\ pc = "classify"
    /\ vtype' = Classify(script, route)
    /\ pc' = "classified"
    /\ UNCHANGED <<rd, last, kind, fields, buf, res, stack>>
    /\ UNCHANGED <<script, max_retries, base_delay, attempt, log, fetched, valid, route>>

NextVal ==
    \/ ValidateAndFilterPositions
    \/ ClassifyVehicleType

SpecVal == InitVal /\ [][NextVal]_vars

\* The number a coordinate stands for lies in the box: -36.5 <= latitude
\* <= -33.5 and 137.5 <= longitude <= 140.5, in units of 2^-18 degree.
WithinBox(lat, lon) ==
    /\ ~lat.nan /\ -9568256 <= lat.x /\ lat.x <= -8781824
    /\ ~lon.nan /\ 36044800 <= lon.x /\ lon.x <= 36831232

NonZero(c) == c.nan \/ c.x # 0

\* The record the claim retains.
Retained(v) ==
    /\ v.latitude # None
    /\ v.longitude # None
    /\ NonZero(Sample(v.latitude.v))
    /\ NonZero(Sample(v.longitude.v))
    /\ WithinBox(Sample(v.latitude.v), Sample(v.longitude.v))

\* C18: validate_and_filter_positions retains a record if and only if its
\* latitude and longitude are both present, both non-zero, and
\* -36.5 <= latitude <= -33.5 and 137.5 <= longitude <= 140.5, the four
\* boundaries included; the retained records keep their order.
C18_BoundingBox ==
    pc = "validated" => valid = SelectSeq(fetched, LAMBDA v : Retained(v))

\* The embedded validator was given latitude -36.5 and then -36.50001 with
\* longitude 138.6, and kept the first only.
C18_Witness ==
    /\ pc = "validated"
    /\ script = "embedded"
    /\ Len(fetched) = 2
    /\ fetched[1].latitude = Float(<<0, 0, 18, 194>>)
    /\ fetched[2].latitude = Float(<<3, 0, 18, 194>>)
    /\ fetched[1].longitude = LonGood
    /\ fetched[2].longitude = LonGood
    /\ valid = <<fetched[1]>>

\* A str without the white space at its two ends, said without recursion.
Trimmed(r) ==
    CHOOSE t \in {SubSeq(r, i, j) : i \in 1..(Len(r) + 1), j \in 0..Len(r)} :
        /\ (t # <<>> => ~IsSpace(t[1]) /\ ~IsSpace(t[Len(t)]))
        /\ \E i \in 1..(Len(r) + 1), j \in 0..Len(r) :
              /\ t = SubSeq(r, i, j)
              /\ \A k \in 1..Len(r) : (k < i \/ k > j) => IsSpace(r[k])
              /\ (t = <<>> => \A k \in 1..Len(r) : IsSpace(r[k]))

\* The classification the claim gives to a route_id.
Classified(r) ==
    IF r = None \/ r = Str(<<>>) THEN "Unknown"
    ELSE IF Trimmed(Upper(r.v)) \in {GLNELG, BTANIC} THEN "Tram"
    ELSE IF Trimmed(Upper(r.v)) # <<>>
            /\ \A k \in 1..Len(Trimmed(Upper(r.v))) : IsAlphaChar(Trimmed(Upper(r.v))[k])
         THEN "Train"
    ELSE "Bus"

\* The classifications the claim spells out.
Examples ==
    {[r |-> Str(GLNELG), t |-> "Tram"], [r |-> Str(BTANIC), t |-> "Tram"],
     [r |-> Str(OUTERHBF), t |-> "Train"], [r |-> Str(<<55, 52, 51>>), t |-> "Bus"],
     [r |-> None, t |-> "Unknown"], [r |-> Str(<<>>), t |-> "Unknown"]}

Event(ev, ok, cause, n, data) == [ev |-> ev, ok |-> ok, cause |-> cause, n |-> n, data |-> data]

\* the defaults "max_retries: int = 4, base_delay: float = 1.5"
DefaultMaxRetries == 4
DefaultBaseDelay == 15

BaseDelays == {DefaultBaseDelay, 10}

RECURSIVE Pow2(_)
Pow2(k) == IF k <= 0 THEN 1 ELSE 2 * Pow2(k - 1)

\* a test that lets one more attempt through
RetriesExhaustedLate(n, m) == n > m

\* a test for the exact count only
RetriesExhaustedEqual(n, m) == n = m

\* "if attempt >= max_retries"
RetriesExhausted(n, m) == n >= m

\* a delay that doubles one attempt early
SleepDoubled(base, n) == base * Pow2(n)

\* "sleep_s = base_delay * (2 ** (attempt - 1))"
SleepSeconds(base, n) == base * Pow2(n - 1)

\* an except clause that names the decoder's error only
CatchesDecodeOnly(s, cause) == cause = "decode"

\* an except clause that names the errors of the request only
CatchesNetworkOnly(s, cause) == cause = "network"

\* Whether the statement that raises is inside "try ... except Exception":
\* Improvements builds the ssl context and the Request before its loop, the
\* two other scripts inside the try.
Catches(s, cause) == IF s = "improvements" THEN cause # "setup" ELSE TRUE

\* Records the bindings-based scripts decode from a response.
VIn == SampleRecord(StrA, LatGood, LonGood, Str(GLNELG))
VOut == SampleRecord(StrB, Float(<<0, 0, 18, 66>>), LonGood, Str(OUTERHBF))
VZero == SampleRecord(<<67>>, Float(ZeroCoord.b), Float(ZeroCoord.b), None)
VNoPos == SampleRecord(<<68>>, None, None, Str(<<55, 52, 51>>))

Responses == SeqsUpTo({VIn, VOut, VZero, VNoPos}, MaxVehicles)

\* Feeds the embedded decoder is given: inside the box, outside it,
\* without Position, truncated.
PosAdelaide == <<F32(1, LatGood.v), F32(2, LonGood.v)>>
EntAdelaide == <<StrF(1, StrA), SubF(4, <<SubF(2, PosAdelaide), VarF(5, TsReal)>>)>>

EmbeddedFeeds ==
    {<<>>, <<SubF(2, EntAdelaide)>>, <<SubF(2, EntA)>>, <<SubF(2, EntTrunc)>>,
     <<SubF(2, EntAdelaide), SubF(2, EntNoPos)>>,
     <<Header, SubF(2, EntA), SubF(2, EntAdelaide)>>}

Attempts(l) == SelectSeq(l, LAMBDA e : e.ev = "attempt")

\* "with urllib.request.urlopen(request, ...) as response" is the first
\* statement of the try body: every attempt sends a request of its own and
\* reads feed_data from its response.
Request(l) == Len(Attempts(l)) + 1

\* What the caller of fetch_and_parse_gtfs_data passes.
FetchCalled(m, base) ==
    /\ max_retries = m
    /\ base_delay = base
    /\ attempt = 0
    /\ log = <<>>
    /\ fetched = <<>>
    /\ valid = <<>>
    /\ route = None
    /\ vtype = ""

InitFetch ==
    /\ RdIdle
    /\ AsmUnused
    /\ pc = "call"
    /\ script \in Scripts
    /\ \E m \in (-NegRetries)..MaxRetries : \E base \in BaseDelays :
          IF script = "improvements" THEN FetchCalled(m, base) ELSE FetchCalled(0, 0)

\* Improvements, lines 128-134: the ssl context and the Request are built
\* and attempt is set to 0, outside any try.
FetchSetup ==
    /\ pc = "call"
    /\ script = "improvements"
    /\ \E ok \in BOOLEAN :
          /\ log' = Append(log, Event("setup", ok, IF ok THEN "" ELSE "setup", 0, <<>>))
          /\ pc' = IF ok \/ Catches(script, "setup") THEN "loop" ELSE "raised"
    /\ attempt' = 0
    /\ UNCHANGED <<rd, last, kind, fields, buf, res, stack>>
    /\ UNCHANGED <<script, max_retries, base_delay, fetched, valid, route, vtype>>

\* Improvements, lines 136-142: the try body runs to "return vehicles".
AttemptSucceeds ==
    /\ pc = "loop"
    /\ \E data \in Responses :
          /\ log' = Append(log, Event("attempt", TRUE, "", Request(log), data))
          /\ fetched' = data
    /\ pc' = "returned"
    /\ UNCHANGED <<rd, last, kind, fields, buf, res, stack>>
    /\ UNCHANGED <<script, max_retries, base_delay, attempt, valid, route, vtype>>

\* Improvements, lines 143-150: the try body raises and the handler counts
\* the failure, then returns [] or sleeps and goes round the loop.
AttemptFails ==
    /\ pc = "loop"
    /\ \E cause \in {"network", "decode"} :
          IF ~Catches(script, cause)
          THEN /\ log' = Append(log, Event("attempt", FALSE, cause, Request(log), <<>>))
               /\ pc' = "raised"
               /\ UNCHANGED <<attempt, fetched>>
          ELSE IF RetriesExhausted(attempt + 1, max_retries)
          THEN /\ log' = Append(log, Event("attempt", FALSE, cause, Request(log), <<>>))
               /\ attempt' = attempt + 1
               /\ fetched' = <<>>
               /\ pc' = "returned"
          ELSE /\ log' = log \o <<Event("attempt", FALSE, cause, Request(log), <<>>),
                                  Event("sleep", TRUE, "",
                                        SleepSeconds(base_delay, attempt + 1), <<>>)>>
               /\ attempt' = attempt + 1
               /\ pc' = "loop"
               /\ UNCHANGED fetched
    /\ UNCHANGED <<rd, last, kind, fields, buf, res, stack>>
    /\ UNCHANGED <<script, max_retries, base_delay, valid, route, vtype>>

\* Notebook, lines 94-110: one try around the request and the parse.
FetchNotebook ==
    /\ pc = "call"
    /\ script = "notebook"
    /\ \/ \E data \in Responses :
             /\ log' = Append(log, Event("attempt", TRUE, "", Request(log), data))
             /\ fetched' = data
             /\ pc' = "returned"
       \/ \E cause \in {"setup", "network", "decode"} :
             /\ log' = Append(log, Event("attempt", FALSE, cause, Request(log), <<>>))
             /\ fetched' = <<>>
             /\ pc' = IF Catches(script, cause) THEN "returned" ELSE "raised"
    /\ UNCHANGED <<rd, last, kind, fields, buf, res, stack>>
    /\ UNCHANGED <<script, max_retries, base_delay, attempt, valid, route, vtype>>

\* The event of the one attempt of the embedded script, from its outcome q.
EmbeddedEvent(response, q) ==
    IF response = <<>> THEN Event("attempt", FALSE, "network", 1, <<>>)
    ELSE IF q.err # "" THEN Event("attempt", FALSE, "decode", 1, <<>>)
    ELSE Event("attempt", TRUE, "", 1, q.out)

EmbeddedReturns(response, q) ==
    /\ log' = Append(log, EmbeddedEvent(response, q))
    /\ fetched' = q.out
    /\ pc' = IF q.ok THEN "returned" ELSE "raised"

\* embedded decoder, lines 432-449: the request fails, or the server answers
\* with a feed that the embedded parser decodes.
FetchEmbedded ==
    /\ pc = "call"
    /\ script = "embedded"
    /\ \E response \in {<<>>} \cup {<<EncMsg(fs)>> : fs \in EmbeddedFeeds} :
          \E accepts \in BOOLEAN :
              EmbeddedReturns(response, fetch_and_parse_gtfs_data(response, accepts))
    /\ UNCHANGED <<rd, last, kind, fields, buf, res, stack>>
    /\ UNCHANGED <<script, max_retries, base_delay, attempt, valid, route, vtype>>

NextFetch ==
    \/ FetchSetup
    \/ AttemptSucceeds
    \/ AttemptFails
    \/ FetchNotebook
    \/ FetchEmbedded

SpecFetch == InitFetch /\ [][NextFetch]_vars

(***************************************************************************)
(* Claims C15 - C17, checked under SpecFetch.                              *)
(***************************************************************************)
LastOf(l) == l[Len(l)]

\* C15: bounded retry.  With max_retries = m >= 1 in Improvements: no
\* attempt follows a successful one and at most m attempts are made; when
\* the function has returned after a successful attempt, it returned that
\* attempt's records; when it has returned after a failed one, exactly m
\* attempts were made, all have failed and the result is empty; and while it
\* is still in its loop fewer than m attempts have failed.
C15_BoundedRetry ==
    (script = "improvements" /\ max_retries >= 1) =>
        /\ \A i \in 1..(Len(Attempts(log)) - 1) : ~Attempts(log)[i].ok
        /\ Len(Attempts(log)) <= max_retries
        /\ pc = "loop" => Len(Attempts(log)) < max_retries
        /\ pc = "returned" =>
              /\ Attempts(log) # <<>>
              /\ IF LastOf(Attempts(log)).ok
                 THEN fetched = LastOf(Attempts(log)).data
                 ELSE Len(Attempts(log)) = max_retries /\ fetched = <<>>

\* Three failures with max_retries = 4, then a fourth attempt that succeeds
\* and whose records are returned.
C15_Witness ==
    /\ script = "improvements"
    /\ max_retries = 4
    /\ pc = "returned"
    /\ Len(Attempts(log)) = 4
    /\ \A i \in 1..3 : ~Attempts(log)[i].ok
    /\ Attempts(log)[4].ok
    /\ fetched = <<VIn, VOut>>
    /\ fetched = Attempts(log)[4].data

\* C16: exponential backoff.  Every sleep comes directly after a failed
\* attempt, lasts base_delay * 2^(j - 1) where j is the number of attempts
\* made before it, and is followed by another attempt: the run never ends
\* with a sleep.  Every failed attempt that is not the last one is followed
\* by a sleep, and no successful attempt is followed by anything.
C16_BackoffSchedule ==
    \A p \in 1..Len(log) :
        /\ log[p].ev = "sleep" =>
              /\ p > 1
              /\ log[p - 1].ev = "attempt"
              /\ ~log[p - 1].ok
              /\ log[p].n = base_delay * 2^(Len(Attempts(SubSeq(log, 1, p))) - 1)
              /\ IF p = Len(log) THEN pc = "loop" ELSE log[p + 1].ev = "attempt"
        /\ (log[p].ev = "attempt" /\ p < Len(log)) =>
              /\ ~log[p].ok
              /\ log[p + 1].ev = "sleep"

\* Three failed attempts with base_delay = 1.5 s: sleeps of 1.5, 3 and 6 s,
\* then the fourth attempt returns.
C16_Witness ==
    /\ script = "improvements"
    /\ base_delay = 15
    /\ pc = "returned"
    /\ Len(log) = 8
    /\ log[3].ev = "sleep" /\ log[3].n = 15
    /\ log[5].ev = "sleep" /\ log[5].n = 30
    /\ log[7].ev = "sleep" /\ log[7].n = 60
    /\ log[8].ev = "attempt"

\* C17: in each script no failure of the network request leaves
\* fetch_and_parse_gtfs_data as an exception: whenever an exception has left
\* the function, no request has failed in that call; and when the function
\* has returned after a request failure its result is the empty list, in
\* Improvements not before max_retries attempts were made.
C17_FailuresReturned ==
    /\ pc = "raised" => \A p \in 1..Len(log) : log[p].cause # "network"
    /\ (/\ pc = "returned"
        /\ log # <<>>
        /\ LastOf(log).cause = "network") =>
            /\ fetched = <<>>
            /\ script = "improvements" => Len(Attempts(log)) >= max_retries

\* The request fails twice with max_retries = 2 and [] is returned.
C17_Witness ==
    /\ script = "improvements"
    /\ max_retries = 2
    /\ pc = "returned"
    /\ Len(Attempts(log)) = 2
    /\ \A i \in 1..2 : Attempts(log)[i].cause = "network"
    /\ fetched = <<>>

(***************************************************************************)
(* main of the three scripts: one cycle, run step by step.                 *)
(*   pc = "main"     main was entered                                      *)
(*   pc = "call", "loop", "returned", "raised"                             *)
(*                   inside and after fetch_and_parse_gtfs_data            *)
(*   pc = "sink"     there are valid vehicles to write                     *)
(*   pc = "update"   an existing hosted layer was found                    *)
(*   pc = "create"   no hosted layer was found                             *)
(*   pc = "exit"     main returned                                         *)
(*   pc = "crashed"  an exception left main                                *)
(***************************************************************************)
MAX_ADD_PER_REQUEST == 950

\* chunk(seq, size): the slices seq[i:i + size] for i = 0, size, 2 size, ...
RECURSIVE chunk(_, _)
chunk(seq, size) ==
    IF seq = <<>> THEN <<>>
    ELSE IF Len(seq) <= size THEN <<seq>>
    ELSE <<SubSeq(seq, 1, size)>> \o chunk(SubSeq(seq, size + 1, Len(seq)), size)

\* to_epoch_ms; int(d.timestamp() * 1000) in Notebook
ToEpochMs(d) == IF d = None THEN None ELSE [t |-> "epoch_ms", v |-> d.v]

\* The feature update_existing_layer builds from a record.
Feature(s, v) ==
    [x |-> v.longitude, y |-> v.latitude,
     VehicleID |-> v.vehicle_id, VehicleLabel |-> v.vehicle_label,
     LicensePlate |-> v.license_plate, TripID |-> v.trip_id, RouteID |-> v.route_id,
     DirectionID |-> v.direction_id, StartTime |-> v.start_time,
     StartDate |-> v.start_date, Bearing |-> v.bearing, Speed |-> v.speed,
     CurrentStopID |-> v.current_stop_id,
     PositionTimestamp |-> ToEpochMs(v.position_timestamp),
     LastUpdated |-> ToEpochMs(v.last_updated),
     VehicleType |-> Classify(s, v.route_id)]

HasPosition(v) == v.latitude # None /\ v.longitude # None

\* "for v in vehicles_data: if lat is None or lon is None: continue"
FeaturesOf(s, kept) == [k \in 1..Len(kept) |-> Feature(s, kept[k])]

Features(s, vs) == FeaturesOf(s, SelectSeq(vs, HasPosition))

\* a test that lets an empty list through
ProceedsAlways(list) == TRUE

\* "if not vehicles: return" and "if not valid_vehicles: return"
Proceeds(list) == list # <<>>

\* Events that read or write the hosted layer or the local feature class.
SinkOperations ==
    {"search", "truncate", "delete_features", "edit_features", "add_item", "publish",
     "delete_item", "CreateFileGDB", "Delete_management", "CreateFeatureclass", "AddField",
     "insertRow"}

SinkEvents(l) == SelectSeq(l, LAMBDA e : e.ev \in SinkOperations)

InitCycle ==
    /\ RdIdle
    /\ AsmUnused
    /\ pc = "main"
    /\ script \in Scripts
    /\ FetchCalled(0, 0)

\* main up to the call of fetch_and_parse_gtfs_data(GTFS_URL): the two
\* notebooks connect with GIS("home") inside main's try; an exception there
\* is printed by main's handler and main returns.
MainStart ==
    /\ pc = "main"
    /\ IF script = "embedded"
       THEN /\ pc' = "call"
            /\ UNCHANGED <<log, max_retries, base_delay>>
       ELSE \E ok \in BOOLEAN :
            /\ log' = Append(log, Event("connect", ok, IF ok THEN "" ELSE "network", 0, <<>>))
            /\ pc' = IF ok THEN "call" ELSE "exit"
            /\ max_retries' = IF script = "improvements" THEN DefaultMaxRetries ELSE 0
            /\ base_delay' = IF script = "improvements" THEN DefaultBaseDelay ELSE 0
    /\ UNCHANGED <<rd, last, kind, fields, buf, res, stack>>
    /\ UNCHANGED <<script, attempt, fetched, valid, route, vtype>>

\* "if not vehicles: return; valid = validate_and_filter_positions(vehicles);
\* if not valid: return"
MainValidate ==
    /\ pc = "returned"
    /\ IF ~Proceeds(fetched)
       THEN /\ pc' = "exit"
            /\ UNCHANGED valid
       ELSE /\ valid' = validate_and_filter_positions(script, fetched)
            /\ pc' = IF Proceeds(validate_and_filter_positions(script, fetched))
                     THEN "sink" ELSE "exit"
    /\ UNCHANGED <<rd, last, kind, fields, buf, res, stack>>
    /\ UNCHANGED <<script, max_retries, base_delay, attempt, log, fetched, route, vtype>>

\* An exception that left fetch_and_parse_gtfs_data reaches main: the two
\* notebooks print it in "except Exception", the embedded main has no try.
MainExcept ==
    /\ pc = "raised"
    /\ pc' = IF script = "embedded" THEN "crashed" ELSE "exit"
    /\ UNCHANGED <<rd, last, kind, fields, buf, res, stack>>
    /\ UNCHANGED runVars

Search(o) == Event("search", o # "error", IF o = "error" THEN "network" ELSE "", 0, <<>>)

\* The searches for an existing item and where main goes after them.
\* Improvements: one search; an exception goes to main's handler.
\* Notebook: find_existing_feature_layer (its exception is swallowed), then
\* the search for a Feature Service (its exception goes to main's handler),
\* then find_existing_service before the layer is created.
Searches(s, o1, o2) ==
    IF s = "improvements" \/ o1 = "found" THEN <<Search(o1)>>
    ELSE IF o2 = "none" THEN <<Search(o1), Search(o2), Search("none")>>
    ELSE <<Search(o1), Search(o2)>>

AfterSearches(s, o1, o2) ==
    IF o1 = "found" THEN "update"
    ELSE IF s = "improvements" THEN (IF o1 = "none" THEN "create" ELSE "exit")
    ELSE IF o2 = "found" THEN "update"
    ELSE IF o2 = "none" THEN "create"
    ELSE "exit"

SearchExisting ==
    /\ pc = "sink"
    /\ script # "embedded"
    /\ \E o1 \in {"found", "none", "error"} : \E o2 \in {"found", "none", "error"} :
          /\ log' = log \o Searches(script, o1, o2)
          /\ pc' = AfterSearches(script, o1, o2)
    /\ UNCHANGED <<rd, last, kind, fields, buf, res, stack>>
    /\ UNCHANGED <<script, max_retries, base_delay, attempt, fetched, valid, route, vtype>>

\* truncate(), and in Improvements delete_features(where="1=1") when
\* truncate raises.  tr: "ok", "fallback" (truncate raises, the fallback
\* works) or "fail" (the last of them raises).
TruncateEvents(s, tr) ==
    IF tr = "ok" THEN <<Event("truncate", TRUE, "", 0, <<>>)>>
    ELSE IF s = "notebook" THEN <<Event("truncate", FALSE, "sink", 0, <<>>)>>
    ELSE <<Event("truncate", FALSE, "sink", 0, <<>>),
           Event("delete_features", tr = "fallback", IF tr = "fallback" THEN "" ELSE "sink",
                 0, <<>>)>>

Truncated(s, tr) == tr = "ok" \/ (s = "improvements" /\ tr = "fallback")

\* edit_features(adds=batch) for the batches in turn; the batch numbered
\* bad comes back with errors and ends the loop (bad = 0: none does).
AddEvents(batches, bad) ==
    [k \in 1..(IF bad = 0 THEN Len(batches) ELSE bad) |->
        Event("edit_features", k # bad, IF k = bad THEN "sink" ELSE "", Len(batches[k]),
              batches[k])]

\* What update_existing_layer returns, True or False.
ReturnEvent(value) == Event("return", value, "", 0, <<>>)

\* one request with every feature, whatever their number
BatchesWhole(s, fs) == <<fs>>

\* Improvements adds in chunks of MAX_ADD_PER_REQUEST, Notebook at once.
Batches(s, fs) == IF s = "improvements" THEN chunk(fs, MAX_ADD_PER_REQUEST) ELSE <<fs>>

\* The calls update_existing_layer makes and its return.  editable: the
\* item has a sublayer (get_editable_layer in Improvements,
\* layer_item.layers[0] in Notebook); without one the function returns
\* False before it touches the layer.
UpdateEvents(s, batches, editable, tr, bad) ==
    IF ~editable THEN <<ReturnEvent(FALSE)>>
    ELSE IF ~Truncated(s, tr) THEN TruncateEvents(s, tr) \o <<ReturnEvent(FALSE)>>
    ELSE TruncateEvents(s, tr) \o AddEvents(batches, bad) \o <<ReturnEvent(bad = 0)>>

UpdateWith(batches) ==
    \E editable \in BOOLEAN :
    \E tr \in {"ok", "fallback", "fail"} :
    \E bad \in 0..Len(batches) :
       log' = log \o UpdateEvents(script, batches, editable, tr, bad)

\* update_existing_layer as a whole
UpdateExistingLayer ==
    /\ pc = "update"
    /\ UpdateWith(Batches(script, Features(script, valid)))
    /\ pc' = "exit"
    /\ UNCHANGED <<rd, last, kind, fields, buf, res, stack>>
    /\ UNCHANGED <<script, max_retries, base_delay, attempt, fetched, valid, route, vtype>>

\* create_feature_layer_with_unique_name as a whole: the CSV item is added,
\* published and deleted again; its own handler returns (None, None).
CreateEvents(c) ==
    IF c = "add_fails" THEN <<Event("add_item", FALSE, "sink", 0, <<>>)>>
    ELSE <<Event("add_item", TRUE, "", Len(SelectSeq(valid, HasPosition)),
                 SelectSeq(valid, HasPosition)),
           Event("publish", c = "ok", IF c = "ok" THEN "" ELSE "sink", 0, <<>>),
           Event("delete_item", TRUE, "", 0, <<>>)>>

CreateFeatureLayer ==
    /\ pc = "create"
    /\ \E c \in {"ok", "add_fails", "publish_fails"} : log' = log \o CreateEvents(c)
    /\ pc' = "exit"
    /\ UNCHANGED <<rd, last, kind, fields, buf, res, stack>>
    /\ UNCHANGED <<script, max_retries, base_delay, attempt, fetched, valid, route, vtype>>

\* embedded: create_comprehensive_layer, then populate_local_feature_class
InsertEvents(vs) ==
    [k \in 1..Len(SelectSeq(vs, HasPosition)) |->
        Event("insertRow", TRUE, "", 1, <<SelectSeq(vs, HasPosition)[k]>>)]

LocalEvents(gdb, fc) ==
    (IF gdb THEN <<>> ELSE <<Event("CreateFileGDB", TRUE, "", 0, <<>>)>>)
    \o (IF fc THEN <<Event("Delete_management", TRUE, "", 0, <<>>)>> ELSE <<>>)
    \o <<Event("CreateFeatureclass", TRUE, "", 0, <<>>), Event("AddField", TRUE, "", 13, <<>>)>>
    \o InsertEvents(valid)

\* gdb, fc: the geodatabase, the feature class exist already; an arcpy
\* error leaves main, which has no handler.
UpdateLocal ==
    /\ pc = "sink"
    /\ script = "embedded"
    /\ \/ /\ \E gdb \in BOOLEAN : \E fc \in BOOLEAN : log' = log \o LocalEvents(gdb, gdb /\ fc)
          /\ pc' = "exit"
       \/ /\ log' = Append(log, Event("CreateFeatureclass", FALSE, "sink", 0, <<>>))
          /\ pc' = "crashed"
    /\ UNCHANGED <<rd, last, kind, fields, buf, res, stack>>
    /\ UNCHANGED <<script, max_retries, base_delay, attempt, fetched, valid, route, vtype>>

NextCycle ==
    \/ MainStart
    \/ FetchSetup
    \/ AttemptSucceeds
    \/ AttemptFails
    \/ FetchNotebook
    \/ FetchEmbedded
    \/ MainValidate
    \/ MainExcept
    \/ SearchExisting
    \/ UpdateExistingLayer
    \/ CreateFeatureLayer
    \/ UpdateLocal

SpecCycle == InitCycle /\ [][NextCycle]_vars

(***************************************************************************)
(* Claim C20, checked under SpecCycle.                                     *)
(***************************************************************************)
AfterValidation == pc \in {"sink", "update", "create", "exit", "crashed"}

\* C20: in every script, once main is past its two emptiness tests with no
\* records fetched or no record left by validation, main has returned, no
\* exception has left it, and no sink operation was performed.
C20_EmptyCycleNoOp ==
    (/\ AfterValidation
     /\ fetched = <<>> \/ validate_and_filter_positions(script, fetched) = <<>>) =>
        /\ pc = "exit"
        /\ SinkEvents(log) = <<>>

\* Records were fetched, none is inside the box, and main has returned
\* without touching the sink.
C20_Witness ==
    /\ pc = "exit"
    /\ Attempts(log) # <<>>
    /\ LastOf(Attempts(log)).ok
    /\ fetched # <<>>
    /\ valid = <<>>
    /\ SinkEvents(log) = <<>>

(***************************************************************************)
(* Claim C21, checked under SpecCycle.                                     *)
(***************************************************************************)
\* Every feature, row or record a sink operation was given.
SinkItems(l) ==
    UNION {{SinkEvents(l)[p].data[k] : k \in 1..Len(SinkEvents(l)[p].data)} :
              p \in 1..Len(SinkEvents(l))}

\* The coordinates of what a sink was given: a feature has x and y, a record
\* or row has longitude and latitude.
LatitudeOf(item) == IF "y" \in DOMAIN item THEN item.y ELSE item.latitude
LongitudeOf(item) == IF "x" \in DOMAIN item THEN item.x ELSE item.longitude

\* item was made from the record v
MadeFrom(s, item, v) == IF "y" \in DOMAIN item THEN item = Feature(s, v) ELSE item = v

\* The coordinate is one of the samples and the number it stands for lies
\* in [-36.5, -33.5], resp. [137.5, 140.5].
LatitudeInBox(c) ==
    /\ c # None
    /\ \E q \in SampleLatitudes : q.b = c.v /\ ~q.nan /\ -9568256 <= q.x /\ q.x <= -8781824

LongitudeInBox(c) ==
    /\ c # None
    /\ \E q \in SampleLongitudes : q.b = c.v /\ ~q.nan /\ 36044800 <= q.x /\ q.x <= 36831232

\* The position in l of the attempt that returned the records, 0 if none.
FetchedAt(l) ==
    IF \E p \in 1..Len(l) : l[p].ev = "attempt" /\ l[p].ok
    THEN CHOOSE p \in 1..Len(l) : l[p].ev = "attempt" /\ l[p].ok
    ELSE 0

\* C21: in every script, whatever a sink operation was given was made from a
\* record that validate_and_filter_positions retained from the records
\* fetched in this cycle, and has its latitude in [-36.5, -33.5] and its
\* longitude in [137.5, 140.5]; the sink operations come after the one
\* successful fetch-and-decode and after the validation of its records, and
\* no fetch follows them.
C21_OnlyValidatedReachSink ==
    /\ \A item \in SinkItems(log) :
          /\ \E k \in 1..Len(validate_and_filter_positions(script, fetched)) :
                MadeFrom(script, item, validate_and_filter_positions(script, fetched)[k])
          /\ LatitudeInBox(LatitudeOf(item))
          /\ LongitudeInBox(LongitudeOf(item))
    /\ SinkEvents(log) # <<>> =>
          /\ FetchedAt(log) > 0
          /\ log[FetchedAt(log)].data = fetched
          /\ valid = validate_and_filter_positions(script, fetched)
          /\ valid # <<>>
          /\ \A p \in 1..Len(log) :
                /\ log[p].ev \in SinkOperations => p > FetchedAt(log)
                /\ log[p].ev \in {"setup", "attempt", "sleep", "connect"} => p <= FetchedAt(log)

\* Improvements fetched a record outside the box and one inside it, and
\* added the feature of the second to the hosted layer.
C21_Witness ==
    /\ script = "improvements"
    /\ pc = "exit"
    /\ fetched = <<VOut, VIn>>
    /\ valid = <<VIn>>
    /\ \E p \in 1..Len(log) :
          /\ log[p].ev = "edit_features"
          /\ log[p].ok
          /\ log[p].data = <<Feature("improvements", VIn)>>

(***************************************************************************)
(* update_existing_layer called on its own, with lists long enough to need *)
(* several requests.                                                       *)
(***************************************************************************)
MaxFullBatches == 2

\* The k-th record of a long list: its vehicle_id is k in decimal digits.
NumberedRecord(k) ==
    SampleRecord(<<48 + (k \div 1000), 48 + ((k \div 100) % 10), 48 + ((k \div 10) % 10),
                   48 + (k % 10)>>, LatGood, LonGood, Str(GLNELG))

Numbered(n) == [k \in 1..n |-> NumberedRecord(k)]

\* Lengths around the multiples of MAX_ADD_PER_REQUEST.
UpdateLengths ==
    {n \in {MAX_ADD_PER_REQUEST * b + d : b \in 0..MaxFullBatches, d \in {-1, 0, 1}} : n >= 0}

\* Lists with and without a record that has no position.
UpdateInputs ==
    {Numbered(n) : n \in UpdateLengths} \cup {<<VNoPos>> \o Numbered(n) : n \in UpdateLengths}

InitUpdate ==
    /\ RdIdle
    /\ AsmUnused
    /\ pc = "update"
    /\ script \in {"improvements", "notebook"}
    /\ max_retries = 0
    /\ base_delay = 0
    /\ attempt = 0
    /\ log = <<>>
    /\ valid \in UpdateInputs
    /\ fetched = valid
    /\ route = None
    /\ vtype = ""

NextUpdate == UpdateExistingLayer

SpecUpdate == InitUpdate /\ [][NextUpdate]_vars

(***************************************************************************)
(* Claim C22, checked under SpecUpdate.                                    *)
(***************************************************************************)
Adds(l) == SelectSeq(l, LAMBDA e : e.ev = "edit_features")

Removals(l) == {p \in 1..Len(l) : l[p].ev \in {"truncate", "delete_features"} /\ l[p].ok}

Smaller(a, b) == IF a <= b THEN a ELSE b

\* C22: update_existing_layer of Improvements calls truncate at most once,
\* and delete_features only directly after a truncate that failed.  When a
\* batch was added, the features were removed exactly once, before the
\* first add.  Batch k is not empty, has at most 950 features and is the
\* k-th slice of 950 of the built feature list, so the batches sent are
\* consecutive and in order; a batch with a failed add is the last one sent,
\* and the function then returns False.  The function returns True only when
\* every batch was sent and none reported a failed add.
C22_TruncateThenBatchedAdd ==
    (script = "improvements" /\ pc = "exit") =>
        /\ Cardinality({p \in 1..Len(log) : log[p].ev = "truncate"}) <= 1
        /\ \A p \in 1..Len(log) :
              log[p].ev = "delete_features" =>
                  p > 1 /\ log[p - 1].ev = "truncate" /\ ~log[p - 1].ok
        /\ Adds(log) # <<>> =>
              /\ Cardinality(Removals(log)) = 1
              /\ \A r \in Removals(log) : \A p \in 1..Len(log) :
                    log[p].ev = "edit_features" => r < p
        /\ \A k \in 1..Len(Adds(log)) :
              /\ Adds(log)[k].data # <<>>
              /\ Len(Adds(log)[k].data) <= 950
              /\ Adds(log)[k].data =
                    SubSeq(Features(script, valid), 950 * (k - 1) + 1,
                           Smaller(950 * k, Len(Features(script, valid))))
              /\ ~Adds(log)[k].ok => k = Len(Adds(log)) /\ ~LastOf(log).ok
        /\ LastOf(log).ev = "return"
        /\ LastOf(log).ok =>
              /\ Cardinality(Removals(log)) = 1
              /\ \A k \in 1..Len(Adds(log)) : Adds(log)[k].ok
              /\ 950 * Len(Adds(log)) >= Len(Features(script, valid))

\* 1901 features after a record without position: truncate fails,
\* delete_features removes the old features, then batches of 950, 950 and 1
\* are added and True is returned.
C22_Witness ==
    /\ script = "improvements"
    /\ pc = "exit"
    /\ Len(valid) = 1902
    /\ Len(log) = 6
    /\ log[1].ev = "truncate" /\ ~log[1].ok
    /\ log[2].ev = "delete_features" /\ log[2].ok
    /\ Len(log[3].data) = 950 /\ Len(log[4].data) = 950 /\ Len(log[5].data) = 1
    /\ log[5].data[1] = Feature("improvements", valid[1902])
    /\ log[6].ev = "return" /\ log[6].ok

(***************************************************************************)
(* Claim C23, checked under SpecVal.                                       *)
(***************************************************************************)
\* C23: for every list of records the validator of Improvements, with its
\* test for a zero coordinate, returns the same list as the validators of
\* Notebook and of the embedded script, which have none.
C23_ValidatorsAgree ==
    pc = "validated" =>
        /\ validate_and_filter_positions("improvements", fetched)
              = validate_and_filter_positions("notebook", fetched)
        /\ validate_and_filter_positions("improvements", fetched)
              = validate_and_filter_positions("embedded", fetched)
        /\ valid = validate_and_filter_positions("improvements", fetched)

\* The embedded validator, which has no zero test, was given (0, 0) and a
\* record inside the box and dropped the first.
C23_Witness ==
    /\ pc = "validated"
    /\ script = "embedded"
    /\ fetched = <<SampleRecord(StrB, Float(ZeroCoord.b), Float(ZeroCoord.b), None),
                   SampleRecord(StrA, LatGood, LonGood, None)>>
    /\ valid = <<SampleRecord(StrA, LatGood, LonGood, None)>>

(***************************************************************************)
(* Claim C24, checked under SpecAsm.                                       *)
(***************************************************************************)
\* The submessage groups of VehiclePosition: field number and assembler.
Groups == {[num |-> 1, asm |-> "trip"], [num |-> 2, asm |-> "position"],
           [num |-> 8, asm |-> "vehicle"]}

LastOccurrence(fs, n, w) == CHOOSE p \in Occurrences(fs, n, w) : \A q \in Occurrences(fs, n, w) : q <= p

\* The fields of fs that are no trip, position or vehicle submessage.
OwnFields(fs) == SelectSeq(fs, LAMBDA f : ~(f.wt = 2 /\ f.num \in {1, 2, 8}))

\* C24: in the output of _parse_vehicle_position for a well-formed message,
\* every output field of the trip, position and vehicle group has the value
\* the assembler of that group gives to the LAST occurrence of the
\* submessage alone, None where that occurrence does not carry the field,
\* whatever earlier occurrences carried; it is None when the submessage does
\* not occur; current_stop_id and timestamp are what they are in the message
\* without any of the submessages.
C24_RepeatedSubmessageReplaces ==
    (kind = "vehicle_position" /\ pc = "done" /\ AllGood(fields)) =>
        /\ res.ok
        /\ \A g \in Groups : \A key \in DOMAIN NoneOf(g.asm) :
              res.out[key] =
                  IF Occurrences(fields, g.num, 2) = {} THEN None
                  ELSE Decode(g.asm, fields[LastOccurrence(fields, g.num, 2)].val).out[key]
        /\ res.out.current_stop_id =
              parse_vehicle_position(EncMsg(OwnFields(fields))).out.current_stop_id
        /\ res.out.timestamp = parse_vehicle_position(EncMsg(OwnFields(fields))).out.timestamp

\* A trip with trip_id, route_id and direction_id, then a trip with only a
\* trip_id: the second trip_id is stored, route_id and direction_id are None
\* again.
C24_Witness ==
    /\ kind = "vehicle_position"
    /\ pc = "done"
    /\ fields = <<SubF(1, TripA), SubF(1, TripB)>>
    /\ res.ok
    /\ res.out.trip_id = Str(StrB)
    /\ res.out.route_id = None
    /\ res.out.direction_id = None

(***************************************************************************)
(* The assemblers of the embedded decoder run one loop iteration at a      *)
(* time.  rd is the reader of the assembler that is running and kind says  *)
(* which assembler that is; stack holds, innermost first, the assemblers   *)
(* that wait for a nested one, each with its reader.                       *)
(*   pc = "call"      before the outermost assembler is called             *)
(*   pc = "loop"      at "while not r.eof()"                               *)
(*   pc = "returned"  the outermost assembler returned                     *)
(*   pc = "failed"    an exception left the outermost assembler            *)
(***************************************************************************)
\* The assembler called on the payload of (field, wt) by assembler k.
NestedKind(k, field, wt) ==
    IF wt # 2 THEN "none"
    ELSE IF k = "vehicle_position" /\ field = 1 THEN "trip"
    ELSE IF k = "vehicle_position" /\ field = 8 THEN "vehicle"
    ELSE IF k = "vehicle_position" /\ field = 2 THEN "position"
    ELSE IF k = "feed_entity" /\ field = 4 THEN "vehicle_position"
    ELSE IF k = "feed_message" /\ field = 2 THEN "feed_entity"
    ELSE "none"

\* The reads assembler k makes for a field (field, wt) that calls no nested
\* assembler, r being the reader after the tag.
FieldRead(k, r, field, wt) ==
    CASE k = "trip" ->
            IF wt = 2 /\ field \in {1, 2, 3, 5} THEN ReadLengthDelimited(r)
            ELSE IF wt = 0 /\ field = 6 THEN read_varint(r)
            ELSE skip_field(r, wt)
      [] k = "vehicle" ->
            IF wt = 2 /\ field \in {1, 2, 3} THEN ReadLengthDelimited(r)
            ELSE skip_field(r, wt)
      [] k = "position" ->
            IF wt = 5 /\ field \in {1, 2, 3, 5} THEN read_float(r)
            ELSE skip_field(r, wt)
      [] k = "vehicle_position" ->
            IF wt = 2 /\ field = 7 THEN ReadLengthDelimited(r)
            ELSE IF wt = 0 /\ field = 5 THEN read_varint(r)
            ELSE skip_field(r, wt)
      [] k = "feed_entity" -> skip_field(r, wt)
      [] k = "feed_message" ->
            IF wt = 2 /\ field = 1 THEN ReadLengthDelimited(r)
            ELSE skip_field(r, wt)

\* a caller whose reader stays in front of the payload
ParentBeforeSlice(t, b) == t.r

\* "length = r.read_varint(); sub = r.read_bytes(length)": the reader of the
\* caller once the payload was read; t is the tag read, b the payload read.
ParentAfterSlice(t, b) == b.r

DecodeAlphabet == {0, 10, 18, 34, 128, 255}

\* The messages of the input pools, and every short buffer over
\* DecodeAlphabet, for each assembler.
DecodeBuffers(k) == {EncMsg(fs) : fs \in InputsOf(k)} \cup SeqsUpTo(DecodeAlphabet, MaxBufLen)

InitDecode ==
    /\ RdIdle
    /\ AsmUnused
    /\ pc = "call"
    /\ RunIdle

\* An assembler is called on a buffer.
DecodeCalled ==
    /\ pc = "call"
    /\ \E k \in AssemblerKinds : \E d \in DecodeBuffers(k) :
          /\ kind' = k
          /\ buf' = d
          /\ rd' = ProtoReader(d)
    /\ pc' = "loop"
    /\ UNCHANGED <<last, fields, res, stack>>
    /\ UNCHANGED runVars

\* "while not r.eof()" ends the loop and the assembler returns: to the
\* assembler that called it, which goes on with its own loop, or for good.
AssemblerReturns ==
    /\ pc = "loop"
    /\ eof(rd)
    /\ IF stack = <<>>
       THEN /\ pc' = "returned"
            /\ UNCHANGED <<kind, rd, stack>>
       ELSE /\ pc' = "loop"
            /\ kind' = Head(stack).kind
            /\ rd' = Head(stack).rd
            /\ stack' = Tail(stack)
    /\ UNCHANGED <<last, fields, buf, res>>
    /\ UNCHANGED runVars

\* The state of the decoder after a step.
Step(p, k, r, st) == [pc |-> p, kind |-> k, rd |-> r, stack |-> st]

\* The tag cannot be read: _parse_feed_message_vehicles breaks out of its
\* loop and returns, every other assembler lets the ValueError through.
IterateTagFails(k, st, t) ==
    Step(IF k = "feed_message" THEN "returned" ELSE "failed", k, t.r, st)

\* The payload b of a nested message was read and the assembler sub is
\* called on it with a reader of its own.
IterateCall(k, st, t, b, sub) ==
    IF ~b.ok THEN Step("failed", k, b.r, st)
    ELSE Step("loop", sub, ProtoReader(b.val),
              <<[kind |-> k, rd |-> ParentAfterSlice(t, b)]>> \o st)

\* p is the outcome of the reads made for a field
IterateRead(k, st, p) == Step(IF p.ok THEN "loop" ELSE "failed", k, p.r, st)

\* The reads an assembler makes once the tag t was read: the length and
\* the payload of a nested message, or the value of the field.
AfterTag(k, t) ==
    IF ~t.ok THEN t
    ELSE IF NestedKind(k, FieldOf(t.val), WireOf(t.val)) # "none"
    THEN ReadLengthDelimited(t.r)
    ELSE FieldRead(k, t.r, FieldOf(t.val), WireOf(t.val))

\* The branch an assembler takes for the tag t, p being the outcome of the
\* reads it makes after the tag.
IterateTag(k, st, t, p) ==
    IF ~t.ok THEN IterateTagFails(k, st, t)
    ELSE IF NestedKind(k, FieldOf(t.val), WireOf(t.val)) # "none"
    THEN IterateCall(k, st, t, p, NestedKind(k, FieldOf(t.val), WireOf(t.val)))
    ELSE IterateRead(k, st, p)

\* One iteration of the loop of the running assembler, up to the call of a
\* nested assembler if it makes one: "tag = r.read_varint()" and the
\* branch taken for the tag.
Iterate ==
    /\ pc = "loop"
    /\ ~eof(rd)
    /\ \E t \in {read_varint(rd)} : \E p \in {AfterTag(kind, t)} :
       \E o \in {IterateTag(kind, stack, t, p)} :
          /\ pc' = o.pc
          /\ kind' = o.kind
          /\ rd' = o.rd
          /\ stack' = o.stack
    /\ UNCHANGED <<last, fields, buf, res>>
    /\ UNCHANGED runVars

NextDecode ==
    \/ DecodeCalled
    \/ AssemblerReturns
    \/ Iterate

\* Once an assembler was called the interpreter keeps running it.
SpecDecode == InitDecode /\ [][NextDecode]_vars /\ WF_vars(AssemblerReturns \/ Iterate)

(***************************************************************************)
(* Claim C25, checked under SpecDecode.                                    *)
(***************************************************************************)
Terminated == pc \in {"returned", "failed"}

\* The bytes the assembler at depth d of the stack handed down.
SliceAt(d) == IF d = 1 THEN rd.data ELSE stack[d - 1].rd.data

\* Every reader stays inside its buffer, and the buffer of a nested
\* assembler is the slice of its caller's buffer that ends where the
\* caller's reader stands.
SliceContained ==
    /\ rd.n = Len(rd.data)
    /\ 0 <= rd.i /\ rd.i <= rd.n
    /\ \A d \in 1..Len(stack) :
          /\ stack[d].rd.n = Len(stack[d].rd.data)
          /\ stack[d].rd.i <= stack[d].rd.n
          /\ Len(SliceAt(d)) < stack[d].rd.i
          /\ SliceAt(d) = SubSeq(stack[d].rd.data, stack[d].rd.i - Len(SliceAt(d)) + 1,
                                 stack[d].rd.i)

\* A step that stays in a loop moves the running reader forward in the
\* same buffer, or calls a nested assembler at offset 0 of its slice and
\* leaves the caller further on, or returns at the end of a slice to the
\* caller's reader as it was left.
CursorAdvances ==
    (pc = "loop" /\ pc' = "loop") =>
        \/ /\ stack' = stack
           /\ kind' = kind
           /\ rd'.data = rd.data
           /\ rd'.i > rd.i
        \/ /\ stack' # <<>>
           /\ Tail(stack') = stack
           /\ Head(stack').kind = kind
           /\ Head(stack').rd.data = rd.data
           /\ Head(stack').rd.i > rd.i
           /\ rd'.i = 0
        \/ /\ stack # <<>>
           /\ stack' = Tail(stack)
           /\ eof(rd)
           /\ rd' = Head(stack).rd
           /\ kind' = Head(stack).kind

\* C25: for every buffer every assembler that was called terminates, by
\* returning or by failing: each loop iteration either fails or moves the cursor forward,
\* and a nested assembler reads only the length-delimited slice it was
\* given, which ends exactly where the reader of its caller stands.
C25_DecodingTerminates ==
    /\ []SliceContained
    /\ [][CursorAdvances]_vars
    /\ (pc = "loop") ~> Terminated

\* The TripDescriptor assembler, three calls below
\* _parse_feed_message_vehicles, stands inside its slice.
C25_Witness ==
    /\ pc = "loop"
    /\ kind = "trip"
    /\ Len(stack) = 3
    /\ stack[3].kind = "feed_message"
    /\ rd.i > 0
    /\ rd.i < rd.n

(***************************************************************************)
(* Claims C26 and C27: the retry loop of Improvements.                     *)
(***************************************************************************)
\* urlopen has a timeout and time.sleep ends: once the loop is entered the
\* interpreter completes every pass through the try body.
SpecRetry == InitFetch /\ [][NextFetch]_vars /\ WF_vars(AttemptSucceeds \/ AttemptFails)

Failed(l) == SelectSeq(Attempts(l), LAMBDA e : ~e.ok)

AtLeastOne(m) == IF m < 1 THEN 1 ELSE m

\* C26: for every max_retries, zero and negative values included, and every
\* pattern of attempt outcomes, the retry loop of Improvements ends: at
\* most max(1, max_retries) attempts are made, fewer while the loop is
\* still running, at least one when the function has returned, and the
\* failure counter is the number of failed attempts, so never more than the
\* number of attempts made; a run that entered the loop returns.
C26_RetryLoopTerminates ==
    /\ [](script = "improvements" =>
            /\ Len(Attempts(log)) <= AtLeastOne(max_retries)
            /\ pc = "loop" => Len(Attempts(log)) < AtLeastOne(max_retries)
            /\ pc = "returned" => Len(Attempts(log)) >= 1
            /\ attempt = Len(Failed(log))
            /\ attempt <= Len(Attempts(log)))
    /\ (script = "improvements" /\ pc = "loop") ~> (pc = "returned")

\* With max_retries = -2 the first failure is the only attempt and [] is
\* returned.
C26_Witness ==
    /\ script = "improvements"
    /\ max_retries < 0
    /\ pc = "returned"
    /\ Len(Attempts(log)) = 1
    /\ ~Attempts(log)[1].ok
    /\ attempt = 1
    /\ fetched = <<>>

\* C27: in Improvements a failure of the decoder is handled as a failure of
\* the request is.  Whatever raised in attempt number k, no exception
\* leaves the function and the failure is counted; if k >= max_retries the
\* function has returned [] right after it, otherwise the sleep of
\* base_delay * 2^(k - 1) follows and after it attempt k + 1, which sends
\* request k + 1: every attempt parses the body of its own request.
C27_DecodeFailureRetried ==
    script = "improvements" =>
        /\ \A k \in 1..Len(Attempts(log)) : Attempts(log)[k].n = k
        /\ attempt = Len(Failed(log))
        /\ \A p \in 1..Len(log) :
              (log[p].ev = "attempt" /\ log[p].cause \in {"network", "decode"}) =>
                  /\ pc # "raised"
                  /\ IF log[p].n >= max_retries
                     THEN /\ p = Len(log)
                          /\ pc = "returned"
                          /\ fetched = <<>>
                     ELSE /\ p < Len(log)
                          /\ log[p + 1] = Event("sleep", TRUE, "",
                                                base_delay * 2^(log[p].n - 1), <<>>)
                          /\ IF p + 1 = Len(log) THEN pc = "loop"
                             ELSE /\ log[p + 2].ev = "attempt"
                                  /\ log[p + 2].n = log[p].n + 1

\* The decoder fails on the body of the first request, the function sleeps
\* and sends a second request, the decoder fails on its body too and, with
\* max_retries = 2, [] is returned.
C27_Witness ==
    /\ script = "improvements"
    /\ max_retries = 2
    /\ pc = "returned"
    /\ Len(log) = 4
    /\ log[1].ev = "setup"
    /\ log[2].ev = "attempt" /\ log[2].cause = "decode" /\ log[2].n = 1
    /\ log[3].ev = "sleep"
    /\ log[4].ev = "attempt" /\ log[4].cause = "decode" /\ log[4].n = 2
    /\ attempt = 2
    /\ fetched = <<>>

(***************************************************************************)
(* Claim C28: FeedMessages that fail at one place, decoded by              *)
(* _parse_feed_message_vehicles and by fetch_and_parse_gtfs_data of the    *)
(* embedded decoder.                                                       *)
(***************************************************************************)
\* the buffer ends inside a tag
TagCut == RawF(<<128>>)

\* ten bytes of a tag with the continuation bit set
TagOverLong == RawF([k \in 1..10 |-> 128])

\* the buffer ends after the tag of the length-delimited field n
CutAfterTag(n) == RawF(<<8 * n + 2>>)

\* Failures of the tag read, and failures after a tag was read: of the
\* header, of the length or the payload of an entity, inside an entity, of
\* skip_field.
TagFailures == {TagCut, TagOverLong}
LaterFailures ==
    {CutAfterTag(1), TruncF(1, <<10, 1, 50>>), CutAfterTag(2), TruncF(2, EncMsg(EntB)),
     SubF(2, EntTrunc), SubF(2, EntTruncTop), SubF(2, EntGroup), GroupF(3, 3)}

\* The failures that need the end of the buffer right after them.
FailsAtEnd == {TagCut, CutAfterTag(1), TruncF(1, <<10, 1, 50>>), CutAfterTag(2),
               TruncF(2, EncMsg(EntB))}

FeedPrefixes ==
    {h \o es : h \in {<<>>, <<Header>>},
              es \in SeqsUpTo({SubF(2, EntA), SubF(2, EntB), SubF(2, EntNoVehicle)},
                              MaxEntities)}

\* Well-formed fields, then one failure, then the end of the buffer or, if
\* the failure does not depend on it, one more entity.
FailingFeeds ==
    {p \o <<f>> : p \in FeedPrefixes, f \in TagFailures \cup LaterFailures}
    \cup {p \o <<f, SubF(2, EntA)>> :
             p \in FeedPrefixes, f \in (TagFailures \cup LaterFailures) \ FailsAtEnd}

InitFeed ==
    /\ RdIdle
    /\ \E k \in {"feed_message", "fetch"} : \E fs \in FeedPrefixes \cup FailingFeeds :
        /\ kind = k
        /\ fields = fs
        /\ buf = EncMsg(fs)
    /\ pc = "ready"
    /\ res = [ok |-> TRUE, i |-> 0, out |-> <<>>, err |-> ""]
    /\ RunIdle

NextFeed ==
    \/ ParseFeedMessageVehicles
    \/ FetchAndParse

SpecFeed == InitFeed /\ [][NextFeed]_vars

\* The place of the failure in a feed.
FirstFailure(fs) == CHOOSE k \in 1..Len(fs) : fs[k] \in TagFailures \cup LaterFailures

\* What the call gives for the well-formed fields fs.
DecodedFrom(k, fs) ==
    IF k = "fetch" THEN RecordsOf(VehiclesInOrder(fs)) ELSE VehiclesInOrder(fs)

\* C28: when the tag read of _parse_feed_message_vehicles fails (the buffer
\* ends inside the tag, or the tag has ten continuation bytes) the loop
\* stops and the records of the entities before it are returned, by the
\* assembler and by fetch_and_parse_gtfs_data; when anything fails after a
\* tag was read (length or payload of the header or of an entity cut short,
\* a failure inside an entity, a wire type skip_field does not support) the
\* assembler raises and returns nothing, and fetch_and_parse_gtfs_data
\* reports the error and returns the empty list.
C28_AsymmetricFailure ==
    (pc = "done" /\ ~NetworkFailed /\ fields \in FailingFeeds) =>
        IF fields[FirstFailure(fields)] \in TagFailures
        THEN /\ res.ok
             /\ res.err = ""
             /\ res.out = DecodedFrom(kind, SubSeq(fields, 1, FirstFailure(fields) - 1))
        ELSE /\ res.out = <<>>
             /\ res.err # ""
             /\ res.ok <=> kind = "fetch"

\* A feed of two entities that ends inside a third tag was fetched: the
\* records of the two entities are returned and no error is reported.
C28_Witness ==
    /\ pc = "done"
    /\ kind = "fetch"
    /\ fields = <<SubF(2, EntA), SubF(2, EntB), TagCut>>
    /\ res.err = ""
    /\ Len(res.out) = 2
    /\ res.out[1].vehicle_id # res.out[2].vehicle_id

\* The payload of the second entity is cut short: nothing is returned, the
\* record of the first entity included.
C28_WitnessLater ==
    /\ pc = "done"
    /\ kind = "fetch"
    /\ fields = <<SubF(2, EntA), TruncF(2, EncMsg(EntB))>>
    /\ res.out = <<>>
    /\ res.err # ""
====
